---- MODULE Spec2Model ----
(***************************************************************************)
(* A model of the CO/PO attainment application (Django).                   *)
(*                                                                         *)
(* Numbers.  The program computes in floating point and stores values      *)
(* rounded with round(x, 2).  The model computes in exact integers:        *)
(*   - marks and max_marks are whole marks;                                *)
(*   - a percentage is a fraction [num, den] of a percent; a stored        *)
(*     percentage (rounded to 2 places) is an integer number of            *)
(*     hundredths of a percent (5000 is 50.00);                            *)
(*   - a score on the 0-3 scale is an integer number of hundredths         *)
(*     (225 is 2.25);                                                      *)
(*   - a weightage is an integer number of hundredths (20 is 0.2);         *)
(*   - a survey average_score is an integer number of thousandths          *)
(*     (2333 is 2.333), so that round(average_score, 2) is not the         *)
(*     identity;                                                           *)
(*   - a level threshold and a target percentage are whole percents.       *)
(* round(x, 2) is RoundHalfEven: Python rounds an exactly representable    *)
(* tie to the even neighbour.  The binary representation error of a float  *)
(* is not modelled.                                                        *)
(*                                                                         *)
(* Python's None is the empty sequence, a present value x is <<x>>.        *)
(***************************************************************************)
EXTENDS Integers, Sequences, FiniteSets, TLC

None == << >>
Some(x) == <<x>>
Val(o) == o[1]

\* The fraction num/den (den > 0).
Frac(n, d) == [num |-> n, den |-> d]

\* round(num/den) to the nearest integer, ties to even; den > 0, num >= 0.
RoundHalfEven(n, d) ==
  LET q == n \div d
      r == n % d
  IN  IF 2 * r < d THEN q
      ELSE IF 2 * r > d THEN q + 1
      ELSE IF q % 2 = 0 THEN q ELSE q + 1

\* ---------------------------------------------------------------- master data
Courses == {"CA", "CB"}
COs == {"CO1", "CO2", "CO3"}
POs == {"PO1", "PO2"}

\* CourseOutcome.course
CourseOf(co) == IF co = "CO3" THEN "CB" ELSE "CA"
\* CourseOutcome.objects.filter(course=course), in primary-key order.
outcomes(course) == IF course = "CA" THEN <<"CO1", "CO2">> ELSE <<"CO3">>

\* CourseOutcome.expected_proficiency: 60.0 by default, set per CO on the admin site.
expected_proficiency(co) == IF co = "CO2" THEN 40 ELSE 60

AssessmentTypes == {"IA1", "IA2", "ENDSEM"}
AttainmentLevels == {"LEVEL_0", "LEVEL_1", "LEVEL_2", "LEVEL_3"}

\* The distinct students of the aggregator's inputs (roll numbers 1..NumStudents).
NumStudents == 3
Rolls == 1 .. NumStudents
\* StudentMark.roll_no of a row written by the legacy upload: the empty string.
NoRoll == 0

\* GlobalConfig with the model's defaults.
DefaultConfig ==
  [co_target_marks_percent |-> 60,
   direct_weightage |-> 80, indirect_weightage |-> 20,
   ia1_weightage |-> 20, ia2_weightage |-> 20, end_sem_weightage |-> 60,
   level1_threshold |-> 50, level2_threshold |-> 60, level3_threshold |-> 70]

VARIABLES
  cfg,          \* the GlobalConfig row
  assessments,  \* course -> the assessment types for which an Assessment exists
  components,   \* <<course, type>> -> the AssessmentComponents of that assessment, in order
  marks,        \* the StudentMark rows
  survey,       \* CO -> None or its COSurveyAggregate
  coAtt,        \* CO -> None or its COAttainment row
  mappings,     \* <<CO, PO>> -> COtoPOMapping.level, 0 when there is no mapping
  poAtt,        \* PO -> None or its POAttainment row
  preview,      \* request.session["marks_preview"], None when absent
  ret,          \* what the last call returned
  pc,           \* where a running computation stands, Idle when none runs
  is_locked,    \* semester -> Semester.is_locked
  course_outcomes,  \* the CourseOutcome rows: course, code, description
  student_rows, \* the roll_number of the Student rows
  n_assessments \* <<course, type>> -> the number of Assessment rows of that course and type

vars ==
  <<cfg, assessments, components, marks, survey, coAtt, mappings, poAtt, preview, ret, pc,
    is_locked, course_outcomes, student_rows, n_assessments>>

\* No computation is running.
Idle == [at |-> "idle"]

\* The semesters, and Course.semester (nullable): CA is in S1, CB has none.
Semesters == {"S1"}
semester(course) == IF course = "CA" THEN Some("S1") ELSE None
Unlocked == [s \in Semesters |-> FALSE]

\* The CourseOutcome rows as seeded: one per CO.
Outcome(course, code, description) ==
  [course |-> course, code |-> code, description |-> description]
SeedOutcomes == {Outcome(CourseOf(co), co, "seeded") : co \in COs}

\* One Assessment row for every type the course has an assessment of.
OnePerType(types) ==
  [a \in Courses \X AssessmentTypes |-> IF a[2] \in types[a[1]] THEN 1 ELSE 0]

\* An assessment is identified by its course and type; a component by its
\* assessment and its position among the assessment's components.
Question(code, mm, co) == [component_number |-> code, max_marks |-> mm, course_outcome |-> co]
Mark(course, type, q, roll, m, row) ==
  [course |-> course, assessment |-> type, question |-> q, roll_no |-> roll, marks |-> m, row |-> row]

\* ---------------------------------------------------------------- the engine

\* _percent_to_level(pct, cfg): pct is a fraction of a percent.
_percent_to_level_strict(pct, c) ==
  IF pct.num > c.level3_threshold * pct.den THEN "LEVEL_3"
  ELSE IF pct.num > c.level2_threshold * pct.den THEN "LEVEL_2"
  ELSE IF pct.num > c.level1_threshold * pct.den THEN "LEVEL_1"
  ELSE "LEVEL_0"

_percent_to_level(pct, c) ==
  IF pct.num >= c.level3_threshold * pct.den THEN "LEVEL_3"
  ELSE IF pct.num >= c.level2_threshold * pct.den THEN "LEVEL_2"
  ELSE IF pct.num >= c.level1_threshold * pct.den THEN "LEVEL_1"
  ELSE "LEVEL_0"

_level_to_numeric(lvl) ==
  CASE lvl = "LEVEL_0" -> 0
    [] lvl = "LEVEL_1" -> 1
    [] lvl = "LEVEL_2" -> 2
    [] lvl = "LEVEL_3" -> 3
    [] OTHER -> 0

\* sum(q.max_marks for q in questions): qs is a set of positions in sheet.
RECURSIVE SumMax(_, _)
SumMax(sheet, qs) ==
  IF qs = {} THEN 0
  ELSE LET i == CHOOSE j \in qs : TRUE
       IN  sheet[i].max_marks + SumMax(sheet, qs \ {i})

\* The loop "for sm in marks_qs": roll_totals after the rows of ms.
\* A row's marks may be null: (sm.marks or 0.0).
RECURSIVE roll_totals(_)
roll_totals(ms) ==
  IF ms = {} THEN << >>
  ELSE LET sm == CHOOSE m \in ms : TRUE
           rest == roll_totals(ms \ {sm})
           old == IF sm.roll_no \in DOMAIN rest THEN rest[sm.roll_no] ELSE 0
           add == IF sm.marks = None THEN 0 ELSE Val(sm.marks)
       IN  [r \in DOMAIN rest \cup {sm.roll_no} |->
              IF r = sm.roll_no THEN old + add ELSE rest[r]]

\* The same with a strict comparison against target_marks.
compute_co_attainment_strict(course, type, co, c, sm_rows) ==
  LET sheet == components[<<course, type>>]
      questions == {i \in DOMAIN sheet : sheet[i].course_outcome = co}
      total_max == SumMax(sheet, questions)
      marks_qs == {m \in sm_rows : /\ m.course = course /\ m.assessment = type
                                 /\ m.question \in questions
                                 /\ m.roll_no # NoRoll}
      totals == roll_totals(marks_qs)
      total_students == Cardinality(DOMAIN totals)
      passed == Cardinality({r \in DOMAIN totals :
                  totals[r] * 100 > total_max * c.co_target_marks_percent})
  IN  IF questions = {} THEN [pct |-> None, level |-> None]
      ELSE IF total_max = 0 THEN [pct |-> None, level |-> None]
      ELSE IF DOMAIN totals = {} THEN [pct |-> None, level |-> None]
      ELSE [pct |-> Some(RoundHalfEven(passed * 10000, total_students)),
            level |-> Some(_percent_to_level(Frac(passed * 100, total_students), c))]

\* The same with missing marks reported as 0 percent instead of (None, None).
compute_co_attainment_zero(course, type, co, c, sm_rows) ==
  LET sheet == components[<<course, type>>]
      questions == {i \in DOMAIN sheet : sheet[i].course_outcome = co}
      total_max == SumMax(sheet, questions)
      marks_qs == {m \in sm_rows : /\ m.course = course /\ m.assessment = type
                                 /\ m.question \in questions
                                 /\ m.roll_no # NoRoll}
      totals == roll_totals(marks_qs)
      total_students == Cardinality(DOMAIN totals)
      passed == Cardinality({r \in DOMAIN totals :
                  totals[r] * 100 >= total_max * c.co_target_marks_percent})
  IN  IF questions = {} THEN [pct |-> None, level |-> None]
      ELSE IF total_max = 0 THEN [pct |-> None, level |-> None]
      ELSE IF DOMAIN totals = {}
        THEN [pct |-> Some(0), level |-> Some(_percent_to_level(Frac(0, 1), c))]
      ELSE [pct |-> Some(RoundHalfEven(passed * 10000, total_students)),
            level |-> Some(_percent_to_level(Frac(passed * 100, total_students), c))]

\* The same with the CO's own expected_proficiency as the pass threshold, as in
\* the legacy views.calculate_co_attainment.
compute_co_attainment_own_target(course, type, co, c, sm_rows) ==
  LET sheet == components[<<course, type>>]
      questions == {i \in DOMAIN sheet : sheet[i].course_outcome = co}
      total_max == SumMax(sheet, questions)
      marks_qs == {m \in sm_rows : /\ m.course = course /\ m.assessment = type
                                 /\ m.question \in questions
                                 /\ m.roll_no # NoRoll}
      totals == roll_totals(marks_qs)
      total_students == Cardinality(DOMAIN totals)
      passed == Cardinality({r \in DOMAIN totals :
                  totals[r] * 100 >= total_max * expected_proficiency(co)})
  IN  IF questions = {} THEN [pct |-> None, level |-> None]
      ELSE IF total_max = 0 THEN [pct |-> None, level |-> None]
      ELSE IF DOMAIN totals = {} THEN [pct |-> None, level |-> None]
      ELSE [pct |-> Some(RoundHalfEven(passed * 10000, total_students)),
            level |-> Some(_percent_to_level(Frac(passed * 100, total_students), c))]

\* The same counting the students at or below target_marks.
compute_co_attainment_inverted(course, type, co, c, sm_rows) ==
  LET sheet == components[<<course, type>>]
      questions == {i \in DOMAIN sheet : sheet[i].course_outcome = co}
      total_max == SumMax(sheet, questions)
      marks_qs == {m \in sm_rows : /\ m.course = course /\ m.assessment = type
                                 /\ m.question \in questions
                                 /\ m.roll_no # NoRoll}
      totals == roll_totals(marks_qs)
      total_students == Cardinality(DOMAIN totals)
      passed == Cardinality({r \in DOMAIN totals :
                  totals[r] * 100 <= total_max * c.co_target_marks_percent})
  IN  IF questions = {} THEN [pct |-> None, level |-> None]
      ELSE IF total_max = 0 THEN [pct |-> None, level |-> None]
      ELSE IF DOMAIN totals = {} THEN [pct |-> None, level |-> None]
      ELSE [pct |-> Some(RoundHalfEven(passed * 10000, total_students)),
            level |-> Some(_percent_to_level(Frac(passed * 100, total_students), c))]

\* compute_co_attainment_for_assessment(assessment, co, cfg) -> (pct, level).
\* target_marks = total_max * (cfg.co_target_marks_percent / 100.0), and
\* total >= target_marks is compared as total * 100 >= total_max * percent.
compute_co_attainment_for_assessment(course, type, co, c, sm_rows) ==
  LET sheet == components[<<course, type>>]
      questions == {i \in DOMAIN sheet : sheet[i].course_outcome = co}
      total_max == SumMax(sheet, questions)
      marks_qs == {m \in sm_rows : /\ m.course = course /\ m.assessment = type
                                 /\ m.question \in questions
                                 /\ m.roll_no # NoRoll}
      totals == roll_totals(marks_qs)
      total_students == Cardinality(DOMAIN totals)
      passed == Cardinality({r \in DOMAIN totals :
                  totals[r] * 100 >= total_max * c.co_target_marks_percent})
  IN  IF questions = {} THEN [pct |-> None, level |-> None]
      ELSE IF total_max = 0 THEN [pct |-> None, level |-> None]
      ELSE IF DOMAIN totals = {} THEN [pct |-> None, level |-> None]
      ELSE [pct |-> Some(RoundHalfEven(passed * 10000, total_students)),
            level |-> Some(_percent_to_level(Frac(passed * 100, total_students), c))]

\* The direct score computed with every category's weightage in the divisor,
\* whether or not the category has data.
DirectScoreAllWeights(ia1, ia2, endsem, c) ==
  LET ia1_num == IF ia1.level # None THEN _level_to_numeric(Val(ia1.level)) ELSE 0
      ia2_num == IF ia2.level # None THEN _level_to_numeric(Val(ia2.level)) ELSE 0
      end_num == IF endsem.level # None THEN _level_to_numeric(Val(endsem.level)) ELSE 0
      w_sum == ia1_num * c.ia1_weightage + ia2_num * c.ia2_weightage
               + end_num * c.end_sem_weightage
      w_total == c.ia1_weightage + c.ia2_weightage + c.end_sem_weightage
  IN  IF ia1.level = None /\ ia2.level = None /\ endsem.level = None THEN None
      ELSE IF w_total > 0 THEN Some(RoundHalfEven(w_sum * 100, w_total)) ELSE None

\* "Direct weighted score": round(w_sum / w_total, 2) if w_total > 0 else None,
\* over the categories whose level is not None.
DirectScore(ia1, ia2, endsem, c) ==
  LET ia1_num == IF ia1.level # None THEN _level_to_numeric(Val(ia1.level)) ELSE 0
      ia2_num == IF ia2.level # None THEN _level_to_numeric(Val(ia2.level)) ELSE 0
      end_num == IF endsem.level # None THEN _level_to_numeric(Val(endsem.level)) ELSE 0
      w_sum == (IF ia1.level # None THEN ia1_num * c.ia1_weightage ELSE 0)
             + (IF ia2.level # None THEN ia2_num * c.ia2_weightage ELSE 0)
             + (IF endsem.level # None THEN end_num * c.end_sem_weightage ELSE 0)
      w_total == (IF ia1.level # None THEN c.ia1_weightage ELSE 0)
               + (IF ia2.level # None THEN c.ia2_weightage ELSE 0)
               + (IF endsem.level # None THEN c.end_sem_weightage ELSE 0)
  IN  IF w_total > 0 THEN Some(RoundHalfEven(w_sum * 100, w_total)) ELSE None

\* "Indirect score": round(survey.average_score, 2) when the CO has an
\* aggregate with responses, else None.
IndirectScore(co) ==
  IF survey[co] # None /\ Val(survey[co]).responses > 0
    THEN Some(RoundHalfEven(Val(survey[co]).average_score, 10)) ELSE None

\* The final score with a missing indirect score blended in as 0.
FinalScoreAlwaysBlend(direct_score, indirect_score, c) ==
  IF direct_score # None
    THEN Some(RoundHalfEven(Val(direct_score) * c.direct_weightage
                + (IF indirect_score # None THEN Val(indirect_score) ELSE 0)
                  * c.indirect_weightage, 100))
    ELSE None

\* The final score with a missing direct score coerced to 0.
FinalScoreZero(direct_score, indirect_score, c) ==
  IF direct_score # None
    THEN IF indirect_score # None
           THEN Some(RoundHalfEven(Val(direct_score) * c.direct_weightage
                                   + Val(indirect_score) * c.indirect_weightage, 100))
           ELSE direct_score
    ELSE Some(0)

\* "Final score".
FinalScore(direct_score, indirect_score, c) ==
  IF direct_score # None
    THEN IF indirect_score # None
           THEN Some(RoundHalfEven(Val(direct_score) * c.direct_weightage
                                   + Val(indirect_score) * c.indirect_weightage, 100))
           ELSE direct_score
    ELSE None

\* _percent_to_level((final_score / 3.0) * 100.0 if final_score else 0, cfg)
\* if final_score is not None else LEVEL_0
FinalLevel(final_score, c) ==
  IF final_score # None
    THEN _percent_to_level(IF Val(final_score) # 0 THEN Frac(Val(final_score), 3)
                                                   ELSE Frac(0, 1), c)
    ELSE "LEVEL_0"

\* A variant of the loop body that adds the new final_score to the stored one.
COAttainmentRowAccumulating(co, c, sm_rows) ==
  LET course == CourseOf(co)
      nodata == [pct |-> None, level |-> None]
      ia1 == IF "IA1" \in assessments[course]
               THEN compute_co_attainment_for_assessment(course, "IA1", co, c, sm_rows) ELSE nodata
      ia2 == IF "IA2" \in assessments[course]
               THEN compute_co_attainment_for_assessment(course, "IA2", co, c, sm_rows) ELSE nodata
      endsem == IF "ENDSEM" \in assessments[course]
               THEN compute_co_attainment_for_assessment(course, "ENDSEM", co, c, sm_rows) ELSE nodata
      direct_score == DirectScore(ia1, ia2, endsem, c)
      indirect_score == IndirectScore(co)
      fresh == FinalScore(direct_score, indirect_score, c)
      stored == IF coAtt[co] # None THEN Val(coAtt[co]).final_score ELSE None
      final_score == IF fresh # None /\ stored # None
                       THEN Some(Val(fresh) + Val(stored)) ELSE fresh
      final_level == FinalLevel(final_score, c)
  IN  [ia1_level |-> ia1.pct, ia2_level |-> ia2.pct, end_sem_level |-> endsem.pct,
       direct_score |-> direct_score, indirect_score |-> indirect_score,
       final_score |-> final_score, level |-> final_level,
       attainment_percentage |-> ia1.pct,
       attainment_level |-> _level_to_numeric(final_level)]

\* One iteration of the loop of compute_attainment_for_course: the COAttainment
\* row of co under configuration c.
COAttainmentRow(co, c, sm_rows) ==
  LET course == CourseOf(co)
      nodata == [pct |-> None, level |-> None]
      ia1 == IF "IA1" \in assessments[course]
               THEN compute_co_attainment_for_assessment(course, "IA1", co, c, sm_rows) ELSE nodata
      ia2 == IF "IA2" \in assessments[course]
               THEN compute_co_attainment_for_assessment(course, "IA2", co, c, sm_rows) ELSE nodata
      endsem == IF "ENDSEM" \in assessments[course]
               THEN compute_co_attainment_for_assessment(course, "ENDSEM", co, c, sm_rows) ELSE nodata
      direct_score == DirectScore(ia1, ia2, endsem, c)
      indirect_score == IndirectScore(co)
      final_score == FinalScore(direct_score, indirect_score, c)
      final_level == FinalLevel(final_score, c)
  IN  [ia1_level |-> ia1.pct, ia2_level |-> ia2.pct, end_sem_level |-> endsem.pct,
       direct_score |-> direct_score, indirect_score |-> indirect_score,
       final_score |-> final_score, level |-> final_level,
       attainment_percentage |-> ia1.pct,
       attainment_level |-> _level_to_numeric(final_level)]

\* A variant whose loop runs over CourseOutcome.objects.all().
compute_attainment_for_every_course(course, sm_rows) ==
  [co \in COs |-> Some(COAttainmentRow(co, cfg, sm_rows))]

\* compute_attainment_for_course(course): the COAttainment table after the
\* update_or_create of every CO of the course, under the current GlobalConfig;
\* sm_rows is the StudentMark table the call reads.
compute_attainment_for_course(course, sm_rows) ==
  [co \in COs |->
     IF CourseOf(co) = course THEN Some(COAttainmentRow(co, cfg, sm_rows)) ELSE coAtt[co]]

\* sum of f[x] over the set S
RECURSIVE SumOver(_, _)
SumOver(f, S) ==
  IF S = {} THEN 0
  ELSE LET x == CHOOSE y \in S : TRUE IN f[x] + SumOver(f, S \ {x})

\* The sums of a plain average: every included mapping weighs 1.
POSumsUnweighted(course, po) ==
  LET included == {co \in COs : /\ mappings[<<co, po>>] > 0 /\ CourseOf(co) = course
                                /\ coAtt[co] # None}
      score == [co \in included |->
                  (IF Val(coAtt[co]).final_score = None THEN 0
                   ELSE Val(Val(coAtt[co]).final_score))]
      weight == [co \in included |-> 1]
  IN  [weighted_sum |-> SumOver(score, included), total_weight |-> SumOver(weight, included)]

\* The loop "for mapping in mappings" of calculate_po_attainment for one PO:
\* weighted_sum (in hundredths) and total_weight over the mappings of the
\* course's COs that have a COAttainment row; (co_att.final_score or 0).
POSums(course, po) ==
  LET included == {co \in COs : /\ mappings[<<co, po>>] > 0 /\ CourseOf(co) = course
                                /\ coAtt[co] # None}
      score == [co \in included |->
                  (IF Val(coAtt[co]).final_score = None THEN 0
                   ELSE Val(Val(coAtt[co]).final_score)) * mappings[<<co, po>>]]
      weight == [co \in included |-> mappings[<<co, po>>]]
  IN  [weighted_sum |-> SumOver(score, included), total_weight |-> SumOver(weight, included)]

\* direct = weighted_sum / total_weight, None for a PO that is skipped.
PODirect(course, po) ==
  LET s == POSums(course, po)
  IN  IF s.total_weight = 0 THEN None ELSE Some(Frac(s.weighted_sum, s.total_weight))

\* A variant that stores direct as final, without the direct weightage.
POAttainmentRowUnweighted(d, c) ==
  LET final == Frac(d.num, d.den)
      level == IF final.num >= c.level3_threshold * 100 * final.den THEN 3
               ELSE IF final.num >= c.level2_threshold * 100 * final.den THEN 2
               ELSE IF final.num >= c.level1_threshold * 100 * final.den THEN 1
               ELSE 0
  IN  [direct_score |-> Some(RoundHalfEven(d.num, d.den)),
       indirect_score |-> Some(0),
       final_score |-> Some(RoundHalfEven(final.num, final.den)),
       attainment_level |-> level,
       attainment_percentage |-> Some(RoundHalfEven(final.num, final.den))]

\* The POAttainment row written for a PO whose direct is d (hundredths, a
\* fraction): final = direct * direct_weightage + 0 * indirect_weightage is
\* compared with the level thresholds as it is.
POAttainmentRow(d, c) ==
  LET final == Frac(d.num * c.direct_weightage, d.den * 100)
      level == IF final.num >= c.level3_threshold * 100 * final.den THEN 3
               ELSE IF final.num >= c.level2_threshold * 100 * final.den THEN 2
               ELSE IF final.num >= c.level1_threshold * 100 * final.den THEN 1
               ELSE 0
  IN  [direct_score |-> Some(RoundHalfEven(d.num, d.den)),
       indirect_score |-> Some(0),
       final_score |-> Some(RoundHalfEven(final.num, final.den)),
       attainment_level |-> level,
       attainment_percentage |-> Some(RoundHalfEven(final.num, final.den))]

\* calculate_po_attainment(course): the POAttainment table afterwards.
calculate_po_attainment(course) ==
  [po \in POs |->
     IF PODirect(course, po) = None THEN poAtt[po]
     ELSE Some(POAttainmentRow(Val(PODirect(course, po)), cfg))]

\* ---------------------------------------------------------------- empty database
Assessments == Courses \X AssessmentTypes
NoAssessments == [c \in Courses |-> {}]
NoComponents == [a \in Assessments |-> << >>]
NoSurvey == [co \in COs |-> None]
NoCOAttainment == [co \in COs |-> None]
NoMappings == [m \in COs \X POs |-> 0]
NoPOAttainment == [po \in POs |-> None]
NoCall == [op |-> "none"]

\* ------------------------------------------------- the aggregator on drawn inputs
\* The question sheets of the IA1 assessment of course CA.  A component with
\* max_marks 0 cannot be saved by save_questions; the admin site can store one.
EngineSheets ==
  { << >>,
    <<Question("Q1", 2, "CO1"), Question("Q2", 2, "CO2")>>,
    <<Question("Q1", 1, "CO1"), Question("Q2", 1, "CO1")>>,
    <<Question("Q1", 1, "CO1"), Question("Q2", 1, "CO2")>>,
    <<Question("Q1", 0, "CO1"), Question("Q2", 1, "CO2")>> }

EngineConfigs ==
  { DefaultConfig, [DefaultConfig EXCEPT !.co_target_marks_percent = 50] }

\* The mark rows of a class: f[r, i] is the marks of roll r on question i, -1
\* when the student has no row on it.
ClassMarks(sheet, f) ==
  { Mark("CA", "IA1", i, r, Some(f[r, i]), 0) :
      <<r, i>> \in {p \in Rolls \X DOMAIN sheet : f[p[1], p[2]] >= 0} }

\* A row kept from the legacy upload (views.upload_marks), on the first
\* question: no roll_no.
LegacyRows(sheet) ==
  IF sheet = << >> THEN {} ELSE {Mark("CA", "IA1", 1, NoRoll, Some(sheet[1].max_marks), 0)}

InitEngine ==
  /\ cfg \in EngineConfigs
  /\ assessments = [NoAssessments EXCEPT !["CA"] = {"IA1"}]
  /\ \E sheet \in EngineSheets :
       /\ components = [NoComponents EXCEPT ![<<"CA", "IA1">>] = sheet]
       /\ \E f \in [Rolls \X DOMAIN sheet -> -1 .. 2] :
            /\ \A p \in DOMAIN f : f[p] <= sheet[p[2]].max_marks
            /\ marks = ClassMarks(sheet, f) \cup LegacyRows(sheet)
  /\ survey = NoSurvey
  /\ coAtt = NoCOAttainment
  /\ mappings = NoMappings
  /\ poAtt = NoPOAttainment
  /\ preview = None
  /\ ret = NoCall
  /\ pc = Idle
  /\ is_locked = Unlocked
  /\ course_outcomes = SeedOutcomes
  /\ student_rows = {}
  /\ n_assessments = OnePerType(assessments)

\* One call of compute_co_attainment_for_assessment(ia1, co, cfg).
AggCall(co) ==
  /\ ret = NoCall
  /\ LET r == compute_co_attainment_for_assessment("CA", "IA1", co, cfg, marks)
     IN  ret' = [op |-> "agg", co |-> co, pct |-> r.pct, level |-> r.level]
  /\ UNCHANGED <<cfg, assessments, components, marks, survey, coAtt, mappings, poAtt, preview, pc, is_locked, course_outcomes, student_rows, n_assessments>>

NextEngine == \E co \in {"CO1", "CO2"} : AggCall(co)

SpecEngine == InitEngine /\ [][NextEngine]_vars

\* ------------------------------------------------- the classifier on drawn inputs
ThresholdGrid == {0, 50, 60, 70}
LevelConfigs ==
  { [DefaultConfig EXCEPT !.level1_threshold = t[1], !.level2_threshold = t[2],
                          !.level3_threshold = t[3]] :
      t \in ThresholdGrid \X ThresholdGrid \X ThresholdGrid }
\* Percentages in hundredths of a percent.
PercentSamples == {0, 1, 4999, 5000, 5001, 5999, 6000, 6999, 7000, 10000}

InitLevel ==
  /\ cfg \in LevelConfigs
  /\ assessments = NoAssessments
  /\ components = NoComponents
  /\ marks = {}
  /\ survey = NoSurvey
  /\ coAtt = NoCOAttainment
  /\ mappings = NoMappings
  /\ poAtt = NoPOAttainment
  /\ preview = None
  /\ ret = NoCall
  /\ pc = Idle
  /\ is_locked = Unlocked
  /\ course_outcomes = SeedOutcomes
  /\ student_rows = {}
  /\ n_assessments = OnePerType(assessments)

\* One call of _percent_to_level(pct, cfg).
LevelCall(p) ==
  /\ ret = NoCall
  /\ ret' = [op |-> "level", pct |-> Frac(p, 100), level |-> _percent_to_level(Frac(p, 100), cfg)]
  /\ UNCHANGED <<cfg, assessments, components, marks, survey, coAtt, mappings, poAtt, preview, pc, is_locked, course_outcomes, student_rows, n_assessments>>

NextLevel == \E p \in PercentSamples : LevelCall(p)

SpecLevel == InitLevel /\ [][NextLevel]_vars

\* ------------------------------------- the two calculators on a drawn database
\* Every assessment of course CA has one question for CO1 and one for CO2.
CalcSheet == <<Question("Q1", 2, "CO1"), Question("Q2", 2, "CO2")>>
\* The classes: rows <<roll, marks on Q1, marks on Q2>>, -1 for no row.
CalcClasses ==
  { {},
    {<<1, -1, 0>>, <<2, -1, 0>>},
    {<<1, 2, 0>>, <<2, 0, 0>>},
    {<<1, 2, 2>>, <<2, 2, 0>>, <<3, 0, 0>>},
    {<<1, 2, 0>>, <<2, 2, 0>>},
    {<<1, -1, 2>>, <<2, -1, 2>>} }
CalcMarks(type, class) ==
  UNION { {Mark("CA", type, q, row[1], Some(row[q + 1]), 0) : q \in {i \in 1 .. 2 : row[i + 1] >= 0}} :
          row \in class }
CalcConfigs ==
  { DefaultConfig,
    [DefaultConfig EXCEPT !.ia1_weightage = 0, !.ia2_weightage = 40],
    [DefaultConfig EXCEPT !.ia2_weightage = 10, !.end_sem_weightage = 70] }
Survey(n, avg) == [responses |-> n, average_score |-> avg]
CalcSurveys == {None, Some(Survey(0, 2500)), Some(Survey(3, 2333))}
Mappings(m) == [p \in COs \X POs |-> IF p \in DOMAIN m THEN m[p] ELSE 0]
CalcMappings ==
  { Mappings(<<"CO1", "PO1">> :> 3 @@ <<"CO2", "PO1">> :> 1 @@ <<"CO3", "PO1">> :> 2),
    Mappings(<<"CO1", "PO1">> :> 2 @@ <<"CO2", "PO2">> :> 3 @@ <<"CO3", "PO2">> :> 1) }
\* A COAttainment row of CO3 left by an earlier computation for course CB.
EarlierRow ==
  [ia1_level |-> Some(5000), ia2_level |-> None, end_sem_level |-> None,
   direct_score |-> Some(100), indirect_score |-> None, final_score |-> Some(100),
   level |-> "LEVEL_0", attainment_percentage |-> Some(5000), attainment_level |-> 0]

InitCalc ==
  /\ cfg \in CalcConfigs
  /\ \E present \in SUBSET AssessmentTypes :
       /\ assessments = [NoAssessments EXCEPT !["CA"] = present]
       /\ components = [a \in Assessments |->
                          IF a[1] = "CA" /\ a[2] \in present THEN CalcSheet ELSE << >>]
       /\ \E class \in [present -> CalcClasses] :
            marks = UNION {CalcMarks(type, class[type]) : type \in present}
  /\ \E s \in CalcSurveys : survey = [NoSurvey EXCEPT !["CO1"] = s]
  /\ coAtt = [NoCOAttainment EXCEPT !["CO3"] = Some(EarlierRow)]
  /\ mappings \in CalcMappings
  /\ poAtt = NoPOAttainment
  /\ preview = None
  /\ ret = NoCall
  /\ pc = Idle
  /\ is_locked = Unlocked
  /\ course_outcomes = SeedOutcomes
  /\ student_rows = {}
  /\ n_assessments = OnePerType(assessments)

\* COAttainment.objects.create(course_outcome=co, ...) where update_or_create
\* stands: a row is added whether or not the CO has one.
rows_after_create(n) == n + 1

\* COAttainment.objects.update_or_create(course_outcome=co, defaults=...): the
\* number of rows of the CO afterwards, n being the number before.
rows_after_update_or_create(n) == IF n = 0 THEN 1 ELSE n

\* compute_attainment_for_course(course), as recalculate_attainment calls it.
\* ret keeps the list the call returns (the COs of the appended rows, in loop
\* order) and the number of COAttainment rows of every CO after the call.
Recalc(course) ==
  /\ coAtt' = compute_attainment_for_course(course, marks)
  /\ ret' = [op |-> "recalc", course |-> course,
             results |-> outcomes(course),
             rows |-> [co \in COs |->
                         LET n == IF coAtt[co] # None THEN 1 ELSE 0
                         IN  IF CourseOf(co) = course
                               THEN rows_after_update_or_create(n) ELSE n]]
  /\ UNCHANGED <<cfg, assessments, components, marks, survey, mappings, poAtt, preview, pc, is_locked, course_outcomes, student_rows, n_assessments>>

\* calculate_po_attainment(course); ret keeps the direct value computed per PO.
PoCalc(course) ==
  /\ poAtt' = calculate_po_attainment(course)
  /\ ret' = [op |-> "po", course |-> course, direct |-> [po \in POs |-> PODirect(course, po)]]
  /\ UNCHANGED <<cfg, assessments, components, marks, survey, coAtt, mappings, preview, pc, is_locked, course_outcomes, student_rows, n_assessments>>

NextCalc == \E course \in Courses : Recalc(course) \/ PoCalc(course)

SpecCalc == InitCalc /\ [][NextCalc]_vars

\* ------------------------------------------------------------- the application
\* The requests of a teacher of course CA, of an administrator on the settings
\* page and of a staff user on the admin site, from an empty database.  The
\* semester is not locked.  A request that is answered by an error message or
\* a redirect without a write is not a step.
TeacherCourses == {"CA"}
TeacherTypes == {"IA1", "IA2"}

\* The rows posted to save_questions (question_code[], max_marks[], co_id[]).
QuestionForms ==
  { <<Question("Q1", 2, "CO1"), Question("Q2", 2, "CO2")>>,
    <<Question("Q1", 2, "CO2")>> }

\* A line of an uploaded CSV file: RollNo and the cells Q1 and Q2, None for a
\* blank cell.
CsvRow(roll, q1, q2) == [RollNo |-> roll, cells |-> ("Q1" :> q1 @@ "Q2" :> q2)]
CsvFiles ==
  { <<CsvRow(1, Some(2), Some(2)), CsvRow(2, Some(2), None), CsvRow(3, Some(3), Some(0)),
      CsvRow(NoRoll, Some(2), Some(2))>> }

\* q_map = {q.component_number: q for q in questions}
q_map(sheet) ==
  [code \in {sheet[i].component_number : i \in DOMAIN sheet} |->
     CHOOSE i \in DOMAIN sheet : sheet[i].component_number = code]

\* The loop "for i, row in enumerate(reader, start=2)": a line without RollNo
\* or with a cell above max_marks or below 0 is dropped, a blank cell is 0.0.
RowOk(row, sheet) ==
  /\ row.RollNo # NoRoll
  /\ \A code \in DOMAIN q_map(sheet) :
       row.cells[code] # None =>
         /\ ~(Val(row.cells[code]) > sheet[q_map(sheet)[code]].max_marks)
         /\ ~(Val(row.cells[code]) < 0)
ParsedRow(row, sheet) ==
  [roll |-> row.RollNo,
   marks |-> [code \in DOMAIN q_map(sheet) |->
                IF row.cells[code] = None THEN 0 ELSE Val(row.cells[code])]]
RECURSIVE parsed_rows(_, _)
parsed_rows(file, sheet) ==
  IF file = << >> THEN << >>
  ELSE (IF RowOk(Head(file), sheet) THEN <<ParsedRow(Head(file), sheet)>> ELSE << >>)
       \o parsed_rows(Tail(file), sheet)

\* The StudentMark rows _confirm_marks builds from the preview rows: one per
\* row and question code that is still in q_map.
bulk(course, type, rows, sheet) ==
  UNION { { Mark(course, type, q_map(sheet)[code], rows[n].roll, Some(rows[n].marks[code]), n) :
              code \in DOMAIN rows[n].marks \cap DOMAIN q_map(sheet) } :
          n \in DOMAIN rows }

\* The StudentMark rows of an assessment.
MarksOf(course, type) == {m \in marks : m.course = course /\ m.assessment = type}

\* The CO-PO mappings entered on the admin site before the term.
SeedMappings ==
  Mappings(<<"CO1", "PO1">> :> 3 @@ <<"CO2", "PO1">> :> 1 @@ <<"CO3", "PO2">> :> 2)

\* The forms posted to admin_settings with action=save; the last one has
\* category weightages summing to 1.1.
SettingsForms ==
  { [DefaultConfig EXCEPT !.level1_threshold = 40, !.level2_threshold = 50,
                          !.level3_threshold = 60, !.co_target_marks_percent = 50],
    [DefaultConfig EXCEPT !.ia1_weightage = 30] }

\* The COSurveyAggregate values entered for CO1 on the admin site.
SurveyForms == {None, Some(Survey(3, 2333))}

Init ==
  /\ cfg = DefaultConfig
  /\ assessments = NoAssessments
  /\ components = NoComponents
  /\ marks = {}
  /\ survey = NoSurvey
  /\ coAtt = NoCOAttainment
  /\ mappings = SeedMappings
  /\ poAtt = NoPOAttainment
  /\ preview = None
  /\ ret = NoCall
  /\ pc = Idle
  /\ is_locked = Unlocked
  /\ course_outcomes = SeedOutcomes
  /\ student_rows = {}
  /\ n_assessments = OnePerType(assessments)

create_assessment(course, type) ==
  /\ type \notin assessments[course]
  /\ assessments' = [assessments EXCEPT ![course] = @ \cup {type}]
  /\ n_assessments' = [n_assessments EXCEPT ![<<course, type>>] = @ + 1]
  /\ ret' = [op |-> "create_assessment", course |-> course]
  /\ UNCHANGED <<cfg, components, marks, survey, coAtt, mappings, poAtt, preview, pc,
                 is_locked, course_outcomes, student_rows>>

\* a.delete() cascades to the components and their marks.  A preview of the
\* deleted assessment keeps an assessment_id that no assessment has again.
delete_assessment(course, type) ==
  /\ type \in assessments[course]
  /\ assessments' = [assessments EXCEPT ![course] = @ \ {type}]
  /\ components' = [components EXCEPT ![<<course, type>>] = << >>]
  /\ marks' = marks \ MarksOf(course, type)
  /\ preview' = IF preview # None /\ Val(preview).assessment_id = Some(<<course, type>>)
                  THEN Some([Val(preview) EXCEPT !.assessment_id = None])
                  ELSE preview
  /\ n_assessments' = [n_assessments EXCEPT ![<<course, type>>] = 0]
  /\ ret' = [op |-> "delete_assessment", course |-> course]
  /\ UNCHANGED <<cfg, survey, coAtt, mappings, poAtt, pc, is_locked, course_outcomes, student_rows>>

\* The old components are deleted (cascading to their marks) and the posted
\* ones created.
save_questions(course, type, rows) ==
  /\ type \in assessments[course]
  /\ \A i \in DOMAIN rows : rows[i].max_marks > 0
  /\ components' = [components EXCEPT ![<<course, type>>] = rows]
  /\ marks' = marks \ MarksOf(course, type)
  /\ ret' = [op |-> "save_questions", course |-> course]
  /\ UNCHANGED <<cfg, assessments, survey, coAtt, mappings, poAtt, preview, pc, is_locked, course_outcomes, student_rows, n_assessments>>

\* The parse step: the parsed rows go to the session.
marks_upload_process(course, type, file) ==
  /\ type \in assessments[course]
  /\ components[<<course, type>>] # << >>
  /\ preview' = Some([rows |-> parsed_rows(file, components[<<course, type>>]),
                      assessment_id |-> Some(<<course, type>>)])
  /\ ret' = [op |-> "preview", course |-> course]
  /\ UNCHANGED <<cfg, assessments, components, marks, survey, coAtt, mappings, poAtt, pc, is_locked, course_outcomes, student_rows, n_assessments>>

\* A variant of the test that accepts the preview of any assessment.
preview_of_any(p, course, type) == p # None

\* not (not preview or preview.get("assessment_id") != assessment.pk)
preview_of(p, course, type) ==
  p # None /\ Val(p).assessment_id = Some(<<course, type>>)

\* The confirm step (POST with confirm=1).  The preview is popped from the
\* session; uploads is the number of MarksUpload rows the request creates.
_confirm_marks(course, type) ==
  /\ type \in assessments[course]
  /\ components[<<course, type>>] # << >>
  /\ preview' = None
  /\ UNCHANGED <<cfg, assessments, components, survey, mappings, poAtt, pc, is_locked, course_outcomes, student_rows, n_assessments>>
  /\ IF ~preview_of(preview, course, type)
       THEN /\ ret' = [op |-> "preview_expired", course |-> course, type |-> type, uploads |-> 0]
            /\ UNCHANGED <<marks, coAtt>>
       ELSE /\ marks' = (marks \ MarksOf(course, type))
                        \cup bulk(course, type, Val(preview).rows, components[<<course, type>>])
            /\ coAtt' = compute_attainment_for_course(course, marks')
            /\ ret' = [op |-> "confirm_marks", course |-> course, type |-> type, uploads |-> 1]

recalculate_attainment(course) ==
  /\ coAtt' = compute_attainment_for_course(course, marks)
  /\ ret' = [op |-> "recalculate", course |-> course]
  /\ UNCHANGED <<cfg, assessments, components, marks, survey, mappings, poAtt, preview, pc, is_locked, course_outcomes, student_rows, n_assessments>>

\* A float that is NaN, and a posted value float() cannot parse.
NaN == 0 - 1000000
NoNumeral == 0 - 2000000
float_add(x, y) == IF x = NaN \/ y = NaN THEN NaN ELSE x + y
float_abs_diff(x, y) == IF x = NaN \/ y = NaN THEN NaN ELSE IF x < y THEN y - x ELSE x - y
float_gt(x, y) == x # NaN /\ y # NaN /\ x > y
float_ne(x, y) == x = NaN \/ y = NaN \/ x # y

\* admin_settings, action=reset; diffs tells whether a field changed.
admin_settings_reset ==
  /\ cfg' = DefaultConfig
  /\ ret' = [op |-> "settings_reset", diffs |-> cfg # DefaultConfig, history |-> 1]
  /\ UNCHANGED <<assessments, components, marks, survey, coAtt, mappings, poAtt, preview, pc, is_locked, course_outcomes, student_rows, n_assessments>>

\* admin_settings, action=save.  float() raises ValueError on a value that is
\* no numeral; the two sums are validated to within 0.001 by
\* abs(sum - 1.0) > 0.001, which is False when the sum is NaN.  A field is set
\* when float(old) != float(v), which is True for NaN.  cfg.save() with a NaN
\* field stores it where the database has NaN (PostgreSQL) and raises
\* IntegrityError where NaN is bound as NULL (SQLite).  history is the number
\* of GlobalConfigHistory rows the request creates.
admin_settings_save(new) ==
  LET cat == float_add(float_add(new.ia1_weightage, new.ia2_weightage), new.end_sem_weightage)
      mix == float_add(new.direct_weightage, new.indirect_weightage)
      nan == \E k \in DOMAIN new : new[k] = NaN
      changed == \E k \in DOMAIN new : float_ne(cfg[k], new[k])
  IN  /\ IF \E k \in DOMAIN new : new[k] = NoNumeral
           THEN cfg' = cfg /\ ret' = [op |-> "settings_rejected", history |-> 0, before |-> cfg]
           ELSE IF float_gt(float_abs_diff(cat, 100) * 10, 1) \/ float_gt(float_abs_diff(mix, 100) * 10, 1)
           THEN cfg' = cfg /\ ret' = [op |-> "settings_rejected", history |-> 0, before |-> cfg]
           ELSE \E stored \in (IF nan THEN BOOLEAN ELSE {TRUE}) :
                  IF stored
                    THEN cfg' = new /\ ret' = [op |-> "settings_saved", diffs |-> changed,
                                               history |-> IF changed THEN 1 ELSE 0]
                    ELSE cfg' = cfg /\ ret' = [op |-> "settings_error", history |-> 0, before |-> cfg]
      /\ UNCHANGED <<assessments, components, marks, survey, coAtt, mappings, poAtt, preview, pc, is_locked, course_outcomes, student_rows, n_assessments>>

\* The COSurveyAggregate of a CO is added, changed or deleted on the admin site.
admin_survey(co, s) ==
  /\ survey[co] # s
  /\ survey' = [survey EXCEPT ![co] = s]
  /\ ret' = [op |-> "survey", course |-> CourseOf(co)]
  /\ UNCHANGED <<cfg, assessments, components, marks, coAtt, mappings, poAtt, preview, pc, is_locked, course_outcomes, student_rows, n_assessments>>

Next ==
  \/ \E course \in TeacherCourses, type \in TeacherTypes : create_assessment(course, type)
  \/ \E course \in TeacherCourses, type \in TeacherTypes : delete_assessment(course, type)
  \/ \E course \in TeacherCourses, type \in TeacherTypes, rows \in QuestionForms :
       save_questions(course, type, rows)
  \/ \E course \in TeacherCourses, type \in TeacherTypes, file \in CsvFiles :
       marks_upload_process(course, type, file)
  \/ \E course \in TeacherCourses, type \in TeacherTypes : _confirm_marks(course, type)
  \/ \E course \in TeacherCourses : recalculate_attainment(course)
  \/ admin_settings_reset
  \/ \E new \in SettingsForms : admin_settings_save(new)
  \/ \E s \in SurveyForms : admin_survey("CO1", s)

Spec == Init /\ [][Next]_vars

(***************************************************************************)
(* The settings page alone: the forms an administrator can post, with      *)
(* weightages that are numerals, "nan", or no numeral at all.              *)
(***************************************************************************)
PostedWeightages == {0, 20, 40, NaN, NoNumeral}

SettingsPosts ==
  { [DefaultConfig EXCEPT !.ia1_weightage = a, !.ia2_weightage = b, !.end_sem_weightage = e,
                          !.direct_weightage = d, !.indirect_weightage = 100 - d] :
      a \in PostedWeightages, b \in PostedWeightages, e \in {20, 60}, d \in {50, 80, 90} }
  \cup { [DefaultConfig EXCEPT !.direct_weightage = 80, !.indirect_weightage = 50] }

NextSettings ==
  \/ admin_settings_reset
  \/ \E new \in SettingsPosts : admin_settings_save(new)

SpecSettings == Init /\ [][NextSettings]_vars

\* C23: the stored weightages always sum to 1.0 within 0.001, by category and
\* by direct/indirect, and a save that is rejected changes no field of the
\* configuration and adds no row to the change history.
C23_SumsValid ==
  /\ float_abs_diff(float_add(float_add(cfg.ia1_weightage, cfg.ia2_weightage),
                              cfg.end_sem_weightage), 100) # NaN
  /\ float_abs_diff(float_add(float_add(cfg.ia1_weightage, cfg.ia2_weightage),
                              cfg.end_sem_weightage), 100) * 10 <= 1
  /\ float_abs_diff(float_add(cfg.direct_weightage, cfg.indirect_weightage), 100) # NaN
  /\ float_abs_diff(float_add(cfg.direct_weightage, cfg.indirect_weightage), 100) * 10 <= 1
  /\ ret.op = "settings_rejected" => (ret.history = 0 /\ cfg = ret.before)

\* ------------------------------------------------------- the legacy cycle
\* views.upload_marks, which calls calculate_co_attainment(assessment), which
\* ends by calling calculate_po_attainment(course).  The cycle is run as steps:
\* the upload and the head of calculate_co_attainment, one step per CO of the
\* loop, and the PO phase; admin_settings requests of other users interleave.

\* A StudentMark row written by upload_marks: student and component are set,
\* roll_no is left "".
LegacyMark(course, type, q, student, m) ==
  [course |-> course, assessment |-> type, question |-> q, roll_no |-> NoRoll,
   marks |-> Some(m), row |-> 0, student |-> student]

\* The uploaded files: rows <<RollNumber, Q1, Q2>>.
LegacyFiles ==
  { {},
    {<<1, 1, 1>>},
    {<<1, 2, 2>>, <<2, 0, 2>>} }

\* The rows upload_marks creates: one per row and column naming a component.
legacy_rows(course, type, file, sheet) ==
  UNION { { LegacyMark(course, type, q_map(sheet)[code], row[1],
                       IF code = "Q1" THEN row[2] ELSE row[3]) :
              code \in {"Q1", "Q2"} \cap DOMAIN q_map(sheet) } :
          row \in file }


\* The students with marks for the assessment (component__assessment=assessment).
students(course, type, sm_rows) ==
  {m.student : m \in {x \in sm_rows : /\ x.course = course /\ x.assessment = type
                                      /\ x.roll_no = NoRoll}}

\* sum of marks_obtained of a student over a set of components
RECURSIVE obtained(_)
obtained(ms) ==
  IF ms = {} THEN 0
  ELSE LET sm == CHOOSE m \in ms : TRUE IN Val(sm.marks) + obtained(ms \ {sm})

\* The body of the loop "for co in outcomes" of calculate_co_attainment: None
\* when the CO is skipped (continue), else the values given to update_or_create.
\* Scores are hundredths of the stored number, which here is a percentage.
legacy_outcome(co, course, type, config, sids, sm_rows) ==
  LET sheet == components[<<course, type>>]
      comps == {i \in DOMAIN sheet : sheet[i].course_outcome = co}
      total_max == SumMax(sheet, comps)
      of(sid) == {m \in sm_rows : /\ m.course = course /\ m.assessment = type
                                  /\ m.roll_no = NoRoll /\ m.student = sid
                                  /\ m.question \in comps}
      passed == Cardinality({sid \in sids :
                  obtained(of(sid)) * 100 >= expected_proficiency(co) * total_max})
      total_students == Cardinality(sids)
      level == IF passed * 100 >= config.level3_threshold * total_students THEN "LEVEL_3"
               ELSE IF passed * 100 >= config.level2_threshold * total_students THEN "LEVEL_2"
               ELSE IF passed * 100 >= config.level1_threshold * total_students THEN "LEVEL_1"
               ELSE "LEVEL_0"
      avg == IF survey[co] # None THEN Val(survey[co]).average_score ELSE 0
      direct == RoundHalfEven(passed * 10000, total_students)
  IN  IF total_max = 0 THEN None
      ELSE IF total_students = 0 THEN None
      ELSE Some([attainment_percentage |-> Some(direct),
                 direct_score |-> Some(direct),
                 indirect_score |-> Some(avg * 2),
                 final_score |-> Some(RoundHalfEven(
                    passed * 100 * config.direct_weightage * 50
                    + avg * config.indirect_weightage * total_students,
                    total_students * 50)),
                 level |-> level,
                 attainment_level |-> _level_to_numeric(level)])

\* COAttainment.objects.update_or_create(course_outcome=co, defaults=...): the
\* fields not in defaults keep their values, or are null in a new row.
legacy_update(old, d) ==
  [ia1_level |-> IF old = None THEN None ELSE Val(old).ia1_level,
   ia2_level |-> IF old = None THEN None ELSE Val(old).ia2_level,
   end_sem_level |-> IF old = None THEN None ELSE Val(old).end_sem_level,
   direct_score |-> d.direct_score, indirect_score |-> d.indirect_score,
   final_score |-> d.final_score, level |-> d.level,
   attainment_percentage |-> d.attainment_percentage,
   attainment_level |-> d.attainment_level]

\* The loop is left before its last CO.
LoopDoneEarly(p) == Len(p.todo) <= 1

\* The loop "for co in outcomes" has finished.
LoopDone(p) == p.todo = << >>

\* The sheets of the IA1 assessment of course CA: on the second, no component
\* is tagged to CO1.
CycleSheets ==
  { <<Question("Q1", 2, "CO1"), Question("Q2", 2, "CO2")>>,
    <<Question("Q1", 2, "CO2")>> }

InitCycle ==
  /\ cfg = DefaultConfig
  /\ assessments = [NoAssessments EXCEPT !["CA"] = {"IA1"}]
  /\ \E sheet \in CycleSheets : components = [NoComponents EXCEPT ![<<"CA", "IA1">>] = sheet]
  /\ marks = {}
  /\ survey = NoSurvey
  /\ coAtt \in {NoCOAttainment, [NoCOAttainment EXCEPT !["CO1"] = Some(EarlierRow)]}
  /\ mappings \in CalcMappings
  /\ poAtt = NoPOAttainment
  /\ preview = None
  /\ ret = NoCall
  /\ pc = Idle
  /\ is_locked = Unlocked
  /\ course_outcomes = SeedOutcomes
  /\ student_rows = {}
  /\ n_assessments = OnePerType(assessments)

\* upload_marks up to the loop of calculate_co_attainment: the marks of the
\* assessment are wiped and created, config and students are read.  pc keeps,
\* beside the locals, the COAttainment table at the start (before) and the rows
\* the loop has written (written).
upload_marks(course, type, file) ==
  /\ pc = Idle
  /\ type \in assessments[course]
  /\ marks' = (marks \ {m \in MarksOf(course, type) : m.roll_no = NoRoll})
              \cup legacy_rows(course, type, file, components[<<course, type>>])
  /\ pc' = [at |-> "co", course |-> course, type |-> type, config |-> cfg,
            students |-> students(course, type, marks'), todo |-> outcomes(course),
            before |-> coAtt, written |-> << >>]
  /\ UNCHANGED <<cfg, assessments, components, survey, coAtt, mappings, poAtt, preview, ret, is_locked, course_outcomes, student_rows, n_assessments>>

\* One iteration of the loop of calculate_co_attainment.
co_loop ==
  /\ pc.at = "co" /\ ~LoopDone(pc)
  /\ LET co == Head(pc.todo)
         d == legacy_outcome(co, pc.course, pc.type, pc.config, pc.students, marks)
     IN  IF d = None
           THEN /\ coAtt' = coAtt
                /\ pc' = [pc EXCEPT !.todo = Tail(@)]
           ELSE /\ coAtt' = [coAtt EXCEPT ![co] = Some(legacy_update(coAtt[co], Val(d)))]
                /\ pc' = [pc EXCEPT !.todo = Tail(@),
                                    !.written = (co :> legacy_update(coAtt[co], Val(d))) @@ @]
  /\ UNCHANGED <<cfg, assessments, components, marks, survey, mappings, poAtt, preview, ret, is_locked, course_outcomes, student_rows, n_assessments>>

\* calculate_po_attainment(course), called when the loop is left; it reads
\* GlobalConfig.objects.first() itself.  ret keeps what the cycle used.
po_phase ==
  /\ pc.at = "co" /\ LoopDone(pc)
  /\ poAtt' = calculate_po_attainment(pc.course)
  /\ ret' = [op |-> "cycle", course |-> pc.course, todo |-> pc.todo,
             config |-> pc.config, po_config |-> cfg,
             before |-> pc.before, written |-> pc.written,
             read |-> {co \in COs : /\ CourseOf(co) = pc.course /\ coAtt[co] # None
                                    /\ \E po \in POs : mappings[<<co, po>>] > 0}]
  /\ pc' = Idle
  /\ UNCHANGED <<cfg, assessments, components, marks, survey, coAtt, mappings, preview, is_locked, course_outcomes, student_rows, n_assessments>>

NextCycle ==
  \/ \E file \in LegacyFiles : upload_marks("CA", "IA1", file)
  \/ co_loop
  \/ po_phase
  \/ admin_settings_reset
  \/ \E new \in SettingsForms : admin_settings_save(new)

SpecCycle == InitCycle /\ [][NextCycle]_vars

\* ----------------------------------------------------------- the survey parser
\* parse_survey_csv(file_obj, template).  A file is the list of rows that
\* csv.reader yields: the header row, then the data rows, a blank line being
\* the empty row.
LikertLabels == {"Strongly Agree", "Agree", "Neutral", "Disagree"}

\* A five-point variant of the scale, scored from 1.
LIKERT_from_one == [k \in LikertLabels |->
  CASE k = "Strongly Agree" -> 4 [] k = "Agree" -> 3 [] k = "Neutral" -> 2 [] OTHER -> 1]

LIKERT == [k \in LikertLabels |->
  CASE k = "Strongly Agree" -> 3 [] k = "Agree" -> 2 [] k = "Neutral" -> 1 [] OTHER -> 0]

\* str.strip() on the cells that occur
strip(c) == CASE c = " Neutral " -> "Neutral" [] c = " " -> "" [] OTHER -> c

\* [q.code for q in template.questions.all()]
expected == <<"CO1", "CO2">>

\* row_map.get(q, ''): the cell of the last header column named q, '' when the
\* row is too short.
row_map_get(header, row, q) ==
  LET cols == {i \in DOMAIN header : strip(header[i]) = q}
      i == CHOOSE j \in cols : \A k \in cols : k <= j
  IN  IF cols = {} THEN "" ELSE IF i <= Len(row) THEN strip(row[i]) ELSE ""

skipped(row) == \A i \in DOMAIN row : strip(row[i]) = ""

parse_survey_csv(rows) ==
  LET header == rows[1]
      missing == {i \in DOMAIN expected : \A j \in DOMAIN header : strip(header[j]) # expected[i]}
      data == {r \in 2 .. Len(rows) : ~skipped(rows[r])}
      asked == {expected[i] : i \in DOMAIN expected}
      errors == {<<r, q>> \in data \X asked : row_map_get(header, rows[r], q) \notin DOMAIN LIKERT}
      counts == [q \in asked |-> [k \in DOMAIN LIKERT |->
                   Cardinality({r \in data : row_map_get(header, rows[r], q) = k})]]
      total_of(q) == SumOver(counts[q], DOMAIN LIKERT)
      score_of(q) == SumOver([k \in DOMAIN LIKERT |-> LIKERT[k] * counts[q][k]], DOMAIN LIKERT)
  IN  IF rows = << >> THEN [error |-> "empty"]
      ELSE IF missing # {} THEN [error |-> "missing"]
      ELSE IF errors # {} THEN [error |-> "invalid"]
      ELSE [error |-> "",
            total_responses |-> Cardinality(data),
            summary |-> [q \in asked |->
               [total_responses |-> total_of(q), score_total |-> score_of(q),
                average |-> IF total_of(q) > 0 THEN Frac(score_of(q), total_of(q))
                                                ELSE Frac(0, 1)]]]

\* The files that are parsed: up to MaxLines data rows under one of the headers.
MaxLines == 2
SurveyLines ==
  { <<"Strongly Agree", "Agree">>, <<"Agree", " Neutral ">>, <<"Disagree", "Strongly Agree">>,
    <<" Neutral ", "Disagree">>, <<"Disagree", "Disagree">>, <<"Agree", "Maybe">>,
    <<"", "Agree">>, <<"Agree">>, <<" ", " ">>, << >> }
SurveyHeaders == {<<"CO1", "CO2">>, <<"CO2", " CO1">>, <<"CO1", "CO2", "Comment">>, <<"CO1">>}
SurveyFiles ==
  {<< >>} \cup
  UNION {{<<h>> \o body : body \in [1 .. n -> SurveyLines]} :
           h \in SurveyHeaders, n \in 0 .. MaxLines}

\* A file is uploaded; parse_survey_csv has not run yet.
InitSurvey ==
  /\ cfg = DefaultConfig
  /\ assessments = NoAssessments
  /\ components = NoComponents
  /\ marks = {}
  /\ survey = NoSurvey
  /\ coAtt = NoCOAttainment
  /\ mappings = SeedMappings
  /\ poAtt = NoPOAttainment
  /\ preview = None
  /\ ret \in {[op |-> "survey_file", rows |-> rows] : rows \in SurveyFiles}
  /\ pc = Idle
  /\ is_locked = Unlocked
  /\ course_outcomes = SeedOutcomes
  /\ student_rows = {}
  /\ n_assessments = OnePerType(assessments)

survey_parsed ==
  /\ ret.op = "survey_file"
  /\ ret' = [op |-> "parse_survey", rows |-> ret.rows, parsed |-> parse_survey_csv(ret.rows)]
  /\ UNCHANGED <<cfg, assessments, components, marks, survey, coAtt, mappings, poAtt, preview, pc, is_locked, course_outcomes, student_rows, n_assessments>>

NextSurvey == survey_parsed

SpecSurvey == InitSurvey /\ [][NextSurvey]_vars

\* ------------------------------------------------- the background import
\* import_marks_background(marks_upload_id, started_by_id): the thread _run
\* calls import_marks_to_db and handles what it raises.  MarksUpload declares
\* the columns assessment, file_name, uploaded_by, uploaded_at and
\* record_count; status, metadata, file and error_report are no fields of the
\* model, so assigning them sets an attribute of the Python object that
\* save() does not store, and reading one that was never assigned raises
\* AttributeError.  AuditLog declares action, entity, entity_id, user_id and
\* details; object_type and object_id are no fields, so a create that passes
\* them raises TypeError.
AuditLogFields == {"action", "entity", "entity_id", "user_id", "details"}

\* Model.save(): the declared columns of the object are written to its row.
save(row, obj) == [f \in DOMAIN row |-> IF f \in DOMAIN obj THEN obj[f] ELSE row[f]]

\* The roll numbers in the lines of the confirmed file, after the header.
ImportRolls == {"R001", "R002", ""}
MaxImportLines == 3
ImportFiles == UNION {[1 .. n -> ImportRolls] : n \in 0 .. MaxImportLines}

\* The upload is validated and confirmed; the thread has not started.
InitImport ==
  /\ cfg = DefaultConfig
  /\ assessments = [NoAssessments EXCEPT !["CA"] = {"IA1"}]
  /\ components = [NoComponents EXCEPT ![<<"CA", "IA1">>] = CalcSheet]
  /\ marks = {}
  /\ survey = NoSurvey
  /\ coAtt = NoCOAttainment
  /\ mappings = SeedMappings
  /\ poAtt = NoPOAttainment
  /\ preview = None
  /\ ret = NoCall
  /\ pc \in {[at |-> "started", rows |-> rows,
              row |-> [file_name |-> "marks.csv", record_count |-> Len(rows)],
              mu |-> [file_name |-> "marks.csv", record_count |-> Len(rows)],
              raised |-> ""] : rows \in ImportFiles}
  /\ is_locked = Unlocked
  /\ course_outcomes = SeedOutcomes
  /\ student_rows = {}
  /\ n_assessments = OnePerType(assessments)

\* lines 8-10: mu = MarksUpload.objects.get(...); mu.status = 'IMPORTED'; mu.save()
import_marks_to_db ==
  /\ pc.at = "started"
  /\ LET mu == [f \in DOMAIN pc.row \cup {"status"} |->
                  IF f = "status" THEN "IMPORTED" ELSE pc.row[f]]
     IN  pc' = [pc EXCEPT !.at = "metadata", !.mu = mu, !.row = save(pc.row, mu)]
  /\ UNCHANGED <<cfg, assessments, components, marks, survey, coAtt, mappings, poAtt, preview, ret, is_locked, course_outcomes, student_rows, n_assessments>>

\* line 13: metadata = mu.metadata or {}
import_marks_to_db_metadata ==
  /\ pc.at = "metadata"
  /\ "metadata" \notin DOMAIN pc.mu
  /\ pc' = [pc EXCEPT !.at = "except", !.raised = "AttributeError"]
  /\ UNCHANGED <<cfg, assessments, components, marks, survey, coAtt, mappings, poAtt, preview, ret, is_locked, course_outcomes, student_rows, n_assessments>>

\* lines 64-68: except Exception: mu = get(...); mu.status = 'FAILED';
\* mu.error_report = str(exc); mu.save()
import_marks_background_except ==
  /\ pc.at = "except"
  /\ LET mu == [f \in DOMAIN pc.row \cup {"status", "error_report"} |->
                  IF f = "status" THEN "FAILED"
                  ELSE IF f = "error_report" THEN pc.raised ELSE pc.row[f]]
     IN  pc' = [pc EXCEPT !.at = "audit", !.mu = mu, !.row = save(pc.row, mu)]
  /\ UNCHANGED <<cfg, assessments, components, marks, survey, coAtt, mappings, poAtt, preview, ret, is_locked, course_outcomes, student_rows, n_assessments>>

\* line 69: AuditLog.objects.create(user_id=..., action=..., object_type=...,
\* object_id=..., details=...); the thread ends with what it raises.
import_marks_background_audit ==
  /\ pc.at = "audit"
  /\ pc' = [pc EXCEPT !.at = "ended",
                      !.raised = IF {"user_id", "action", "object_type", "object_id", "details"}
                                      \subseteq AuditLogFields
                                   THEN "" ELSE "TypeError"]
  /\ UNCHANGED <<cfg, assessments, components, marks, survey, coAtt, mappings, poAtt, preview, ret, is_locked, course_outcomes, student_rows, n_assessments>>

NextImport ==
  \/ import_marks_to_db
  \/ import_marks_to_db_metadata
  \/ import_marks_background_except
  \/ import_marks_background_audit

SpecImport == InitImport /\ [][NextImport]_vars

\* ------------------------------------------- assessments created concurrently
\* Two requests are served at the same time (two workers); pc[r] is where the
\* view create_assessment stands for request r.  The view runs in autocommit
\* mode, and Assessment has no unique constraint on (course, assessment_type).
Requests == {1, 2}
AtStart == [at |-> "start"]

InitCreate ==
  /\ cfg = DefaultConfig
  /\ assessments = NoAssessments
  /\ components = NoComponents
  /\ marks = {}
  /\ survey = NoSurvey
  /\ coAtt = NoCOAttainment
  /\ mappings = SeedMappings
  /\ poAtt = NoPOAttainment
  /\ preview = None
  /\ ret = NoCall
  /\ pc = [r \in Requests |-> AtStart]
  /\ is_locked = Unlocked
  /\ course_outcomes = SeedOutcomes
  /\ student_rows = {}
  /\ n_assessments = OnePerType(assessments)

\* create_assessment up to the test "One per type per course":
\* Assessment.objects.filter(course=course, assessment_type=a_type).exists().
create_assessment_exists(r, course, type) ==
  /\ pc[r] = AtStart
  /\ IF n_assessments[<<course, type>>] > 0
       THEN /\ ret' = [op |-> "create_assessment", request |-> r, course |-> course,
                       type |-> type, error |-> "already exists", before |-> n_assessments]
            /\ pc' = pc
       ELSE /\ pc' = [pc EXCEPT ![r] = [at |-> "create", course |-> course, type |-> type]]
            /\ ret' = ret
  /\ UNCHANGED <<cfg, assessments, components, marks, survey, coAtt, mappings, poAtt, preview,
                 is_locked, course_outcomes, student_rows, n_assessments>>

\* create_assessment from Assessment.objects.create to the redirect.
create_assessment_create(r) ==
  /\ pc[r].at = "create"
  /\ n_assessments' = [n_assessments EXCEPT ![<<pc[r].course, pc[r].type>>] = @ + 1]
  /\ assessments' = [assessments EXCEPT ![pc[r].course] = @ \cup {pc[r].type}]
  /\ ret' = [op |-> "create_assessment", request |-> r, course |-> pc[r].course,
             type |-> pc[r].type, error |-> "", before |-> n_assessments]
  /\ pc' = [pc EXCEPT ![r] = AtStart]
  /\ UNCHANGED <<cfg, components, marks, survey, coAtt, mappings, poAtt, preview,
                 is_locked, course_outcomes, student_rows>>

\* delete_assessment of one Assessment row (it has no components yet).
delete_assessment_row(course, type) ==
  /\ n_assessments[<<course, type>>] > 0
  /\ n_assessments' = [n_assessments EXCEPT ![<<course, type>>] = @ - 1]
  /\ assessments' = [assessments EXCEPT ![course] =
                       IF n_assessments[<<course, type>>] = 1 THEN @ \ {type} ELSE @]
  /\ ret' = [op |-> "delete_assessment", course |-> course]
  /\ UNCHANGED <<cfg, components, marks, survey, coAtt, mappings, poAtt, preview, pc,
                 is_locked, course_outcomes, student_rows>>

NextCreate ==
  \/ \E r \in Requests, type \in TeacherTypes : create_assessment_exists(r, "CA", type)
  \/ \E r \in Requests : create_assessment_create(r)
  \/ \E type \in TeacherTypes : delete_assessment_row("CA", type)

SpecCreate == InitCreate /\ [][NextCreate]_vars

\* ------------------------------------------------------ the semester lock
\* The most CourseOutcome rows a course gets in the model.
MaxOutcomes == 3
\* f"CO{n}" for the numbers create_co can reach under that bound.
CodeNames == <<"CO1", "CO2", "CO3", "CO4", "CO5", "CO6", "CO7", "CO8">>

\* A lock that never holds.
LockedNever(course) == FALSE

\* The test of the decorator semester_unlocked:
\* course and course.semester and course.semester.is_locked.
Locked(course) == semester(course) # None /\ is_locked[Val(semester(course))]

\* The 403 response of semester_unlocked: the view is not called.
Forbidden(view) ==
  /\ ret' = [op |-> "forbidden", view |-> view]
  /\ UNCHANGED <<cfg, assessments, components, marks, survey, coAtt, mappings, poAtt, preview,
                 pc, is_locked, course_outcomes, student_rows, n_assessments>>

\* A view under @teacher_owns_course @semester_unlocked, requested by the
\* teacher of the course.
semester_unlocked(course, name, view) == IF Locked(course) THEN Forbidden(name) ELSE view

OutcomesOf(course) == {o \in course_outcomes : o.course = course}

\* The code create_co generates: CO<count + 1>, counted up while it is taken.
RECURSIVE free_code(_, _)
free_code(course, existing) ==
  IF \E o \in OutcomesOf(course) : o.code = CodeNames[existing + 1]
    THEN free_code(course, existing + 1)
    ELSE CodeNames[existing + 1]

create_co(course, description) ==
  /\ Cardinality(OutcomesOf(course)) < MaxOutcomes
  /\ IF description = ""
       THEN /\ ret' = [op |-> "create_co", error |-> "Description is required."]
            /\ UNCHANGED course_outcomes
       ELSE /\ course_outcomes' = course_outcomes \cup
                 {Outcome(course, free_code(course, Cardinality(OutcomesOf(course))), description)}
            /\ ret' = [op |-> "create_co", error |-> ""]
  /\ UNCHANGED <<cfg, assessments, components, marks, survey, coAtt, mappings, poAtt, preview,
                 pc, is_locked, student_rows, n_assessments>>

\* An empty description leaves the old one.
edit_co(course, code, description) ==
  /\ \E o \in OutcomesOf(course) : o.code = code
  /\ course_outcomes' =
       {IF o.course = course /\ o.code = code /\ description # ""
          THEN [o EXCEPT !.description = description] ELSE o : o \in course_outcomes}
  /\ ret' = [op |-> "edit_co", error |-> ""]
  /\ UNCHANGED <<cfg, assessments, components, marks, survey, coAtt, mappings, poAtt, preview,
                 pc, is_locked, student_rows, n_assessments>>

\* The CO of the engine that a CourseOutcome row is, if any.
co_of(course, code) == {co \in COs : CourseOf(co) = course /\ co = code}

\* delete_co refuses while a component is mapped to the CO; the delete cascades
\* to the CO's COAttainment, survey aggregate and CO-PO mappings.
delete_co(course, code) ==
  /\ \E o \in OutcomesOf(course) : o.code = code
  /\ IF \E type \in AssessmentTypes : \E i \in DOMAIN components[<<course, type>>] :
          components[<<course, type>>][i].course_outcome = code
       THEN /\ ret' = [op |-> "delete_co", error |-> "questions are mapped to it"]
            /\ UNCHANGED <<course_outcomes, coAtt, survey, mappings>>
       ELSE /\ course_outcomes' = {o \in course_outcomes : ~(o.course = course /\ o.code = code)}
            /\ coAtt' = [co \in COs |-> IF co \in co_of(course, code) THEN None ELSE coAtt[co]]
            /\ survey' = [co \in COs |-> IF co \in co_of(course, code) THEN None ELSE survey[co]]
            /\ mappings' = [m \in DOMAIN mappings |->
                              IF m[1] \in co_of(course, code) THEN 0 ELSE mappings[m]]
            /\ ret' = [op |-> "delete_co", error |-> ""]
  /\ UNCHANGED <<cfg, assessments, components, marks, poAtt, preview,
                 pc, is_locked, student_rows, n_assessments>>

admin_toggle_semester_lock(sem) ==
  /\ is_locked' = [is_locked EXCEPT ![sem] = ~@]
  /\ ret' = [op |-> "toggle_lock", sem |-> sem]
  /\ UNCHANGED <<cfg, assessments, components, marks, survey, coAtt, mappings, poAtt, preview,
                 pc, course_outcomes, student_rows, n_assessments>>

LockForms == { <<Question("Q1", 2, "CO1")>> }
LockFiles == { <<CsvRow(1, Some(2), None), CsvRow(2, Some(1), None)>> }
Descriptions == {"", "edited"}

NextLock ==
  \/ \E sem \in Semesters : admin_toggle_semester_lock(sem)
  \/ \E d \in Descriptions : semester_unlocked("CA", "create_co", create_co("CA", d))
  \/ \E code \in {"CO1", "CO2", "CO3"}, d \in Descriptions :
       semester_unlocked("CA", "edit_co", edit_co("CA", code, d))
  \/ \E code \in {"CO1", "CO2", "CO3"} :
       semester_unlocked("CA", "delete_co", delete_co("CA", code))
  \/ semester_unlocked("CA", "create_assessment", create_assessment("CA", "IA1"))
  \/ semester_unlocked("CA", "delete_assessment", delete_assessment("CA", "IA1"))
  \/ \E rows \in LockForms :
       semester_unlocked("CA", "save_questions", save_questions("CA", "IA1", rows))
  \/ \E file \in LockFiles :
       semester_unlocked("CA", "marks_upload_process", marks_upload_process("CA", "IA1", file))
  \/ semester_unlocked("CA", "marks_upload_process", _confirm_marks("CA", "IA1"))

SpecLock == Init /\ [][NextLock]_vars

\* ------------------------------------------------- the uploads of a teacher
\* Question mappings a teacher saves for IA1 during the term: the maximum of
\* Q1 is lowered, a second question is added.
UploadForms ==
  { <<Question("Q1", 2, "CO1")>>,
    <<Question("Q1", 1, "CO1")>>,
    <<Question("Q1", 2, "CO1"), Question("Q2", 2, "CO2")>> }

\* The files uploaded: one names roll number 1 on two lines.
UploadFiles ==
  { <<CsvRow(1, Some(2), Some(2)), CsvRow(1, Some(1), Some(0)), CsvRow(2, Some(1), None)>>,
    <<CsvRow(2, Some(2), Some(1)), CsvRow(3, Some(3), Some(0))>> }

\* Both internal assessments exist; IA2 has its questions and marks.
InitUpload ==
  /\ cfg = DefaultConfig
  /\ assessments = [NoAssessments EXCEPT !["CA"] = {"IA1", "IA2"}]
  /\ \E rows \in UploadForms :
       components = [NoComponents EXCEPT ![<<"CA", "IA1">>] = rows,
                                         ![<<"CA", "IA2">>] = <<Question("Q1", 2, "CO1")>>]
  /\ marks = {Mark("CA", "IA2", 1, 1, Some(1), 1), Mark("CA", "IA2", 1, 2, Some(2), 2)}
  /\ survey = NoSurvey
  /\ coAtt = NoCOAttainment
  /\ mappings = SeedMappings
  /\ poAtt = NoPOAttainment
  /\ preview = None
  /\ ret = NoCall
  /\ pc = Idle
  /\ is_locked = Unlocked
  /\ course_outcomes = SeedOutcomes
  /\ student_rows = {}
  /\ n_assessments = OnePerType(assessments)

NextUpload ==
  \/ \E rows \in UploadForms : save_questions("CA", "IA1", rows)
  \/ \E type \in TeacherTypes, file \in UploadFiles : marks_upload_process("CA", type, file)
  \/ \E type \in TeacherTypes : _confirm_marks("CA", type)

SpecUpload == InitUpload /\ [][NextUpload]_vars

\* --------------------------------------------------- marks that are raised
MonoSheets ==
  { <<Question("Q1", 2, "CO1")>>,
    <<Question("Q1", 1, "CO1"), Question("Q2", 1, "CO1")>> }

InitMono ==
  /\ cfg \in EngineConfigs
  /\ assessments = [NoAssessments EXCEPT !["CA"] = {"IA1"}]
  /\ \E sheet \in MonoSheets :
       /\ components = [NoComponents EXCEPT ![<<"CA", "IA1">>] = sheet]
       /\ \E f \in [Rolls \X DOMAIN sheet -> -1 .. 2] :
            /\ \A p \in DOMAIN f : f[p] <= sheet[p[2]].max_marks
            /\ marks = ClassMarks(sheet, f)
  /\ survey = NoSurvey
  /\ coAtt = NoCOAttainment
  /\ mappings = NoMappings
  /\ poAtt = NoPOAttainment
  /\ preview = None
  /\ ret = NoCall
  /\ pc = Idle
  /\ is_locked = Unlocked
  /\ course_outcomes = SeedOutcomes
  /\ student_rows = {}
  /\ n_assessments = OnePerType(assessments)

\* The marks of the StudentMark rows of one student on the components of co in
\* the assessment are edited on the admin site, each to a value that is not
\* lower and at least one to a higher value; every other row is left alone.
\* ret keeps what compute_co_attainment_for_assessment returns before and after.
raise_marks(course, type, co, roll) ==
  LET sheet == components[<<course, type>>]
      mine == {m \in marks : /\ m.course = course /\ m.assessment = type
                             /\ m.roll_no = roll
                             /\ sheet[m.question].course_outcome = co}
  IN  /\ mine # {}
      /\ \E g \in [mine -> 0 .. 2] :
           /\ \A m \in mine : g[m] >= Val(m.marks) /\ g[m] <= sheet[m.question].max_marks
           /\ \E m \in mine : g[m] > Val(m.marks)
           /\ LET new == (marks \ mine) \cup {[m EXCEPT !.marks = Some(g[m])] : m \in mine}
              IN  /\ marks' = new
                  /\ ret' = [op |-> "raise", co |-> co, roll |-> roll,
                             before |-> compute_co_attainment_for_assessment(course, type, co, cfg, marks).pct,
                             after |-> compute_co_attainment_for_assessment(course, type, co, cfg, new).pct]
      /\ UNCHANGED <<cfg, assessments, components, survey, coAtt, mappings, poAtt, preview, pc, is_locked, course_outcomes, student_rows, n_assessments>>

NextMono == \E roll \in Rolls : raise_marks("CA", "IA1", "CO1", roll)

SpecMono == InitMono /\ [][NextMono]_vars

\* ------------------------------------------- a recomputation that is aborted
\* compute_attainment_for_course when the computation of one CO raises an
\* error that the loop body does not catch (the only handler is for
\* COSurveyAggregate.DoesNotExist): the exception leaves the loop and the
\* function.  The rows of the COs before it in the loop are already saved.
before_in(seq, co) ==
  {seq[i] : i \in {j \in DOMAIN seq : \E k \in DOMAIN seq : k > j /\ seq[k] = co}}

compute_attainment_raising(course, bad, sm_rows) ==
  [co \in COs |->
     IF co \in before_in(outcomes(course), bad)
       THEN Some(COAttainmentRow(co, cfg, sm_rows)) ELSE coAtt[co]]

InitRaise ==
  /\ cfg \in CalcConfigs
  /\ assessments = [NoAssessments EXCEPT !["CA"] = {"IA1"}]
  /\ components = [NoComponents EXCEPT ![<<"CA", "IA1">>] = CalcSheet]
  /\ \E class \in CalcClasses : marks = CalcMarks("IA1", class)
  /\ \E s \in CalcSurveys : survey = [NoSurvey EXCEPT !["CO1"] = s]
  /\ coAtt \in {NoCOAttainment, [NoCOAttainment EXCEPT !["CO1"] = Some(EarlierRow)]}
  /\ mappings = NoMappings
  /\ poAtt = NoPOAttainment
  /\ preview = None
  /\ ret = NoCall
  /\ pc = Idle
  /\ is_locked = Unlocked
  /\ course_outcomes = SeedOutcomes
  /\ student_rows = {}
  /\ n_assessments = OnePerType(assessments)

\* compute_attainment_for_course(course) called again directly after a call
\* for the same course; ret keeps the table the first call left.
RecalcAgain(course) ==
  /\ ret.op = "recalc" /\ ret.course = course
  /\ coAtt' = compute_attainment_for_course(course, marks)
  /\ ret' = [op |-> "recalc_again", course |-> course, first |-> coAtt]
  /\ UNCHANGED <<cfg, assessments, components, marks, survey, mappings, poAtt, preview, pc, is_locked, course_outcomes, student_rows, n_assessments>>

\* recalculate_attainment when computing the CO bad raises.
RecalcRaising(course, bad) ==
  /\ coAtt' = compute_attainment_raising(course, bad, marks)
  /\ ret' = [op |-> "recalc_raised", course |-> course, failed |-> bad]
  /\ UNCHANGED <<cfg, assessments, components, marks, survey, mappings, poAtt, preview, pc, is_locked, course_outcomes, student_rows, n_assessments>>

NextRaise ==
  \/ Recalc("CA")
  \/ RecalcAgain("CA")
  \/ \E bad \in {"CO1", "CO2"} : RecalcRaising("CA", bad)
  \/ \E new \in SettingsForms : admin_settings_save(new)

SpecRaise == InitRaise /\ [][NextRaise]_vars

\* ================================================================ claims
\* What the claims about the aggregator speak of, stated on the mark rows of
\* the IA1 assessment of course CA without the code's loop.
TaggedTo(co) ==
  {i \in DOMAIN components[<<"CA", "IA1">>] :
     components[<<"CA", "IA1">>][i].course_outcome = co}
MaxOf(co) ==
  LET sheet == components[<<"CA", "IA1">>]
      F[n \in 0 .. Len(sheet)] ==
        IF n = 0 THEN 0
        ELSE F[n - 1] + (IF sheet[n].course_outcome = co THEN sheet[n].max_marks ELSE 0)
  IN  F[Len(sheet)]
RowsOn(r, i) ==
  {m \in marks : m.course = "CA" /\ m.assessment = "IA1" /\ m.roll_no = r /\ m.question = i}
\* The marks of roll r on question i, 0 without a row (at most one row each here).
MarksOn(r, i) ==
  IF RowsOn(r, i) = {} THEN 0 ELSE Val((CHOOSE m \in RowsOn(r, i) : TRUE).marks)
StudentSum(r, co) ==
  LET n == Len(components[<<"CA", "IA1">>])
      F[k \in 0 .. n] ==
        IF k = 0 THEN 0
        ELSE F[k - 1] + (IF k \in TaggedTo(co) THEN MarksOn(r, k) ELSE 0)
  IN  F[n]
\* The students having at least one mark row on the CO's components.
Attempted(co) == {r \in Rolls : \E i \in TaggedTo(co) : RowsOn(r, i) # {}}
\* Those whose summed marks reach target percent of the CO's maximum.
Meeting(co, target) == {r \in Attempted(co) : StudentSum(r, co) * 100 >= MaxOf(co) * target}
DataExists(co) == TaggedTo(co) # {} /\ MaxOf(co) > 0 /\ Attempted(co) # {}
\* x hundredths is n/d percent rounded to two places.
IsPercentOf(x, n, d) ==
  /\ 2 * (x * d - 10000 * n) <= d
  /\ 2 * (10000 * n - x * d) <= d

\* C1: where data exists, the returned percentage is 100 * (students whose marks
\* summed over the CO's components reach target_marks) / (students with a mark
\* row on those components), to two decimal places; the comparison is non-strict
\* and students with marks only on other COs' components are not counted.
C1_Percentage ==
  (ret.op = "agg" /\ DataExists(ret.co)) =>
     /\ ret.pct # None
     /\ IsPercentOf(Val(ret.pct),
                    Cardinality(Meeting(ret.co, cfg.co_target_marks_percent)),
                    Cardinality(Attempted(ret.co)))

\* A call where one student sums to exactly target_marks and counts, another
\* fails, and a third has marks only on the other CO's component.
C1_Witness ==
  /\ ret.op = "agg" /\ DataExists(ret.co)
  /\ \E r \in Attempted(ret.co) :
       StudentSum(r, ret.co) * 100 = MaxOf(ret.co) * cfg.co_target_marks_percent
  /\ \E r \in Rolls \ Attempted(ret.co) : \E i \in DOMAIN components[<<"CA", "IA1">>] :
       RowsOn(r, i) # {}
  /\ ret.pct = Some(5000)

\* C5: the aggregator returns (None, None) when no component is tagged to the
\* CO, when the tagged components' max_marks sum to 0, and when no student has a
\* mark row on the tagged components.
C5_NoData ==
  (ret.op = "agg" /\ ~DataExists(ret.co)) => (ret.pct = None /\ ret.level = None)

\* A call for a CO with tagged components of positive maximum and no student's row.
C5_Witness ==
  /\ ret.op = "agg"
  /\ TaggedTo(ret.co) # {} /\ MaxOf(ret.co) > 0 /\ Attempted(ret.co) = {}
  /\ marks # {}
  /\ ret.pct = None

\* C6: _percent_to_level gives LEVEL_3 from level3_threshold up, else LEVEL_2
\* from level2_threshold up, else LEVEL_1 from level1_threshold up, else LEVEL_0.
C6_Classifier ==
  ret.op = "level" =>
    LET ge3 == ret.pct.num >= cfg.level3_threshold * ret.pct.den
        ge2 == ret.pct.num >= cfg.level2_threshold * ret.pct.den
        ge1 == ret.pct.num >= cfg.level1_threshold * ret.pct.den
    IN  /\ (ret.level = "LEVEL_3") <=> ge3
        /\ (ret.level = "LEVEL_2") <=> (~ge3 /\ ge2)
        /\ (ret.level = "LEVEL_1") <=> (~ge3 /\ ~ge2 /\ ge1)
        /\ (ret.level = "LEVEL_0") <=> (~ge3 /\ ~ge2 /\ ~ge1)

\* A percentage exactly on level2_threshold, below level3_threshold: LEVEL_2.
C6_Witness ==
  /\ ret.op = "level"
  /\ ret.pct.num = cfg.level2_threshold * ret.pct.den
  /\ ret.pct.num < cfg.level3_threshold * ret.pct.den
  /\ ret.level = "LEVEL_2"

\* Two COs with identical components and marks in the IA1 assessment.
Identical(a, b) ==
  LET sheet == components[<<"CA", "IA1">>]
  IN  \E g \in [TaggedTo(a) -> TaggedTo(b)] :
        /\ \A j \in TaggedTo(b) : \E i \in TaggedTo(a) : g[i] = j
        /\ \A i, k \in TaggedTo(a) : g[i] = g[k] => i = k
        /\ \A i \in TaggedTo(a) :
             /\ sheet[i].max_marks = sheet[g[i]].max_marks
             /\ \A r \in Rolls : /\ (RowsOn(r, i) = {}) <=> (RowsOn(r, g[i]) = {})
                                 /\ MarksOn(r, i) = MarksOn(r, g[i])

\* C7 as claimed: the pass threshold is the CO's own target proficiency,
\* target_marks = total_max * (expected_proficiency / 100).
C7_OwnTarget ==
  (ret.op = "agg" /\ DataExists(ret.co)) =>
     /\ ret.pct # None
     /\ IsPercentOf(Val(ret.pct),
                    Cardinality(Meeting(ret.co, expected_proficiency(ret.co))),
                    Cardinality(Attempted(ret.co)))

\* C7 as amended: the pass threshold is the configuration's
\* co_target_marks_percent, the same for every CO: all students counted pass
\* exactly when each sums to total_max * co_target_marks_percent / 100 or more,
\* and a CO with identical components and marks gets the same percentage
\* whatever its own expected_proficiency.
C7_ConfigTarget ==
  (ret.op = "agg" /\ DataExists(ret.co)) =>
     /\ (ret.pct = Some(10000)) <=>
          (\A r \in Attempted(ret.co) :
             StudentSum(r, ret.co) * 100 >= MaxOf(ret.co) * cfg.co_target_marks_percent)
     /\ \A co \in COs :
          (CourseOf(co) = "CA" /\ Identical(ret.co, co)) =>
             compute_co_attainment_for_assessment("CA", "IA1", co, cfg, marks).pct = ret.pct

\* A call for a CO while another CO with another expected_proficiency has
\* identical components and marks, and a student's marks lie between the other
\* CO's own threshold and the configuration's.
C7_Witness ==
  /\ ret.op = "agg" /\ DataExists(ret.co)
  /\ \E co \in COs :
       /\ co # ret.co /\ CourseOf(co) = "CA" /\ Identical(ret.co, co)
       /\ expected_proficiency(co) # expected_proficiency(ret.co)
       /\ \E r \in Attempted(co) :
            /\ StudentSum(r, co) * 100 >= MaxOf(co) * expected_proficiency(co)
            /\ StudentSum(r, co) * 100 < MaxOf(co) * cfg.co_target_marks_percent

\* ------------------------------------------------ claims about the calculators
\* x is n/d rounded to the nearest integer (d > 0).
IsRounded(x, n, d) == 2 * (x * d - n) <= d /\ 2 * (n - x * d) <= d

\* What the aggregator gives for a CO in a category of its course.
Category(co, type) ==
  IF type \in assessments[CourseOf(co)]
    THEN compute_co_attainment_for_assessment(CourseOf(co), type, co, cfg, marks)
    ELSE [pct |-> None, level |-> None]
HasData(co, type) == Category(co, type).level # None
Weightage(type) ==
  CASE type = "IA1" -> cfg.ia1_weightage
    [] type = "IA2" -> cfg.ia2_weightage
    [] type = "ENDSEM" -> cfg.end_sem_weightage
\* numeric_level * weightage of a category with data, 0 of one without.
LevelTerm(co, type) ==
  IF HasData(co, type)
    THEN _level_to_numeric(Val(Category(co, type).level)) * Weightage(type) ELSE 0
WeightTerm(co, type) == IF HasData(co, type) THEN Weightage(type) ELSE 0
LevelSum(co) == LevelTerm(co, "IA1") + LevelTerm(co, "IA2") + LevelTerm(co, "ENDSEM")
WeightSum(co) == WeightTerm(co, "IA1") + WeightTerm(co, "IA2") + WeightTerm(co, "ENDSEM")
\* The COs whose rows the last call of compute_attainment_for_course wrote.
Recomputed == IF ret.op = "recalc" THEN {co \in COs : CourseOf(co) = ret.course} ELSE {}
Row(co) == Val(coAtt[co])

\* C2 as claimed: direct_score is the weighted mean of the levels of the
\* categories with data, and is None exactly when no category has data.
C2_Original ==
  \A co \in Recomputed :
    /\ (Row(co).direct_score = None) <=> (\A type \in AssessmentTypes : ~HasData(co, type))
    /\ Row(co).direct_score # None =>
         Val(Row(co).direct_score) * WeightSum(co) = 100 * LevelSum(co)

\* C2 as amended: when the weightages of the categories with data sum to more
\* than 0, direct_score is sum(level * weightage) / sum(weightage) over those
\* categories, rounded to two decimals (2.0 when only IA1 has data, at level 2);
\* otherwise, so also when no category has data, direct_score is None.
C2_DirectScore ==
  \A co \in Recomputed :
    /\ WeightSum(co) > 0 =>
         /\ Row(co).direct_score # None
         /\ IsRounded(Val(Row(co).direct_score), 100 * LevelSum(co), WeightSum(co))
    /\ WeightSum(co) <= 0 => Row(co).direct_score = None
    /\ (\A type \in AssessmentTypes : ~HasData(co, type)) => Row(co).direct_score = None
    /\ ( /\ HasData(co, "IA1") /\ ~HasData(co, "IA2") /\ ~HasData(co, "ENDSEM")
         /\ Category(co, "IA1").level = Some("LEVEL_2") /\ cfg.ia1_weightage > 0 )
       => Row(co).direct_score = Some(200)

\* Weights 0.2/0.2/0.6, IA2 present without marks for the CO, no End-Semester
\* data, IA1 at level 2: direct_score 2.0.
C2_Witness ==
  /\ ret.op = "recalc" /\ ret.course = "CA"
  /\ cfg.ia1_weightage = 20 /\ cfg.ia2_weightage = 20 /\ cfg.end_sem_weightage = 60
  /\ "IA2" \in assessments["CA"]
  /\ HasData("CO1", "IA1") /\ ~HasData("CO1", "IA2") /\ ~HasData("CO1", "ENDSEM")
  /\ Category("CO1", "IA1").level = Some("LEVEL_2")
  /\ Row("CO1").direct_score = Some(200)

\* C3 as claimed: final_score is direct_score without a survey aggregate that
\* has responses, and direct_score * direct_weightage + average_score *
\* indirect_weightage with indirect_score = average_score otherwise.
C3_Original ==
  \A co \in Recomputed :
    Row(co).direct_score # None =>
      IF survey[co] = None \/ Val(survey[co]).responses = 0
        THEN Row(co).indirect_score = None /\ Row(co).final_score = Row(co).direct_score
        ELSE /\ Row(co).indirect_score # None
             /\ Val(Row(co).indirect_score) * 10 = Val(survey[co]).average_score
             /\ Row(co).final_score # None
             /\ Val(Row(co).final_score) * 1000
                  = Val(Row(co).direct_score) * cfg.direct_weightage * 10
                    + Val(survey[co]).average_score * cfg.indirect_weightage

\* C3 as amended: the same with indirect_score = average_score rounded to two
\* decimals and final_score = direct_score * direct_weightage + indirect_score *
\* indirect_weightage rounded to two decimals.
C3_FinalScore ==
  \A co \in Recomputed :
    Row(co).direct_score # None =>
      IF survey[co] = None \/ Val(survey[co]).responses = 0
        THEN Row(co).indirect_score = None /\ Row(co).final_score = Row(co).direct_score
        ELSE /\ Row(co).indirect_score # None
             /\ IsRounded(Val(Row(co).indirect_score), Val(survey[co]).average_score, 10)
             /\ Row(co).final_score # None
             /\ IsRounded(Val(Row(co).final_score),
                          Val(Row(co).direct_score) * cfg.direct_weightage
                          + Val(Row(co).indirect_score) * cfg.indirect_weightage, 100)

\* A CO blended with a survey aggregate, beside one that has a direct score
\* and no aggregate.
C3_Witness ==
  /\ ret.op = "recalc" /\ ret.course = "CA"
  /\ survey["CO1"] # None /\ Val(survey["CO1"]).responses > 0
  /\ Row("CO1").direct_score # None
  /\ Row("CO1").final_score # Row("CO1").direct_score
  /\ survey["CO2"] = None /\ Row("CO2").direct_score # None
  /\ Row("CO2").final_score = Row("CO2").direct_score

\* No student meets the target in any category in which the CO has data.
AllZero(co) ==
  \A type \in AssessmentTypes : HasData(co, type) => Category(co, type).pct = Some(0)

Included(course, po) ==
  {co \in COs : mappings[<<co, po>>] > 0 /\ CourseOf(co) = course /\ coAtt[co] # None}
FinalOf(co) == IF Row(co).final_score = None THEN 0 ELSE Val(Row(co).final_score)
ScoreTerm(course, po, co) ==
  IF co \in Included(course, po) THEN FinalOf(co) * mappings[<<co, po>>] ELSE 0
LevelOf(course, po, co) == IF co \in Included(course, po) THEN mappings[<<co, po>>] ELSE 0
ScoreTotal(course, po) ==
  ScoreTerm(course, po, "CO1") + ScoreTerm(course, po, "CO2") + ScoreTerm(course, po, "CO3")
LevelTotal(course, po) ==
  LevelOf(course, po, "CO1") + LevelOf(course, po, "CO2") + LevelOf(course, po, "CO3")

\* C10: for each PO with an included mapping, calculate_po_attainment(course)
\* computes direct = sum(final_score * level) / sum(level) over the included
\* mappings of the course's COs, and stores it to two decimals as direct_score.
C10_Direct ==
  ret.op = "po" =>
    \A po \in POs :
      Included(ret.course, po) # {} =>
        /\ ret.direct[po] # None
        /\ Val(ret.direct[po]).num * LevelTotal(ret.course, po)
             = ScoreTotal(ret.course, po) * Val(ret.direct[po]).den
        /\ poAtt[po] # None
        /\ IsRounded(Val(Val(poAtt[po]).direct_score),
                     ScoreTotal(ret.course, po), LevelTotal(ret.course, po))

\* CO1 (final 3.0, correlation 3) and CO2 (final 0.0, correlation 1) of course
\* CA on PO1, to which CO3 of course CB is mapped too: direct_score 2.25.
C10_Witness ==
  /\ ret.op = "po" /\ ret.course = "CA"
  /\ mappings[<<"CO1", "PO1">>] = 3 /\ mappings[<<"CO2", "PO1">>] = 1
  /\ mappings[<<"CO3", "PO1">>] > 0 /\ coAtt["CO3"] # None
  /\ coAtt["CO1"] # None /\ Row("CO1").final_score = Some(300)
  /\ coAtt["CO2"] # None /\ Row("CO2").final_score = Some(0)
  /\ poAtt["PO1"] # None /\ Val(poAtt["PO1"]).direct_score = Some(225)

\* The mappings of a PO whose CO, of the given course, has a computed final_score.
Scored(course, po) ==
  {co \in Included(course, po) : Row(co).final_score # None}
ScoredTerm(course, po, co) ==
  IF co \in Scored(course, po) THEN FinalOf(co) * mappings[<<co, po>>] ELSE 0
ScoredLevel(course, po, co) == IF co \in Scored(course, po) THEN mappings[<<co, po>>] ELSE 0
ScoredTotal(course, po) ==
  ScoredTerm(course, po, "CO1") + ScoredTerm(course, po, "CO2") + ScoredTerm(course, po, "CO3")
ScoredLevels(course, po) ==
  ScoredLevel(course, po, "CO1") + ScoredLevel(course, po, "CO2")
  + ScoredLevel(course, po, "CO3")

\* C11: calculate_po_attainment skips a mapping whose CO has no COAttainment
\* row or a row with final_score None: direct is the weighted mean over the
\* other mappings only, and a PO with no other mapping is not computed.
C11_SkipsNone ==
  ret.op = "po" =>
    \A po \in POs :
      IF Scored(ret.course, po) = {}
        THEN ret.direct[po] = None
        ELSE /\ ret.direct[po] # None
             /\ Val(ret.direct[po]).num * ScoredLevels(ret.course, po)
                  = ScoredTotal(ret.course, po) * Val(ret.direct[po]).den

\* C12: a call of calculate_po_attainment(course) leaves the POAttainment row
\* of every PO to which no mapping of the course contributes as it was, absent
\* or written from another course's contribution.
C12_Frame ==
  [][ret'.op = "po" =>
        \A po \in POs : Scored(ret'.course, po) = {} => poAtt'[po] = poAtt[po]]_vars

\* ------------------------------------------------ claims about the legacy cycle
\* A cycle has just ended: ret tells what it used.
CycleDone == ret.op = "cycle" /\ pc = Idle

C15_OneSnapshot == CycleDone => ret.po_config = ret.config

\* C16: a second call of compute_attainment_for_course directly after a first
\* one, with marks, components, assessments, survey aggregates and
\* configuration unchanged, leaves every COAttainment row as the first call
\* left it (category percentages, direct, indirect and final score, level).
C16_Idempotent == ret.op = "recalc_again" => coAtt = ret.first

\* a second call on a course where a CO has a final_score
C16_Witness ==
  /\ ret.op = "recalc_again"
  /\ \E co \in COs : /\ CourseOf(co) = ret.course /\ coAtt[co] # None
                      /\ Val(coAtt[co]).final_score \notin {None, Some(0)}
                      /\ Val(coAtt[co]).indirect_score # None

\* C17: after the marks of one student on the components of a CO are raised,
\* all other rows unchanged, compute_co_attainment_for_assessment returns for
\* that CO and assessment a percentage not lower than before.
C17_Monotone ==
  ret.op = "raise" =>
    /\ ret.before # None /\ ret.after # None
    /\ Val(ret.after) >= Val(ret.before)

\* a raise that takes the student over the target
C17_Witness == ret.op = "raise" /\ ret.before # None /\ Val(ret.after) > Val(ret.before)

\* ----------------------------------------- claims about concurrent requests
\* C22: a course has at most one Assessment per category, whatever the
\* interleaving of create_assessment and delete_assessment requests, and a
\* create request for a category that exists creates nothing.
C22_OnePerCategory ==
  /\ \A a \in Courses \X AssessmentTypes : n_assessments[a] <= 1
  /\ (ret.op = "create_assessment" /\ ret.error # "") => n_assessments = ret.before

\* ------------------------------------------------------ claims about the lock
\* C21: while the semester of a course is locked, a teacher's create_co,
\* edit_co, delete_co, create_assessment, delete_assessment, save_questions or
\* marks_upload_process (upload or confirm) request on the course is answered
\* 403 and leaves the CourseOutcome, Assessment, AssessmentComponent and
\* StudentMark rows of the course as they were.
C21_LockedRejects ==
  [][(semester("CA") = Some("S1") /\ is_locked["S1"] /\ ret'.op # "toggle_lock") =>
       /\ ret'.op = "forbidden"
       /\ UNCHANGED <<course_outcomes, assessments, n_assessments, components, marks>>]_vars

\* a confirm request refused while a preview waits in the session
C21_Witness ==
  /\ is_locked["S1"]
  /\ ret.op = "forbidden" /\ ret.view = "marks_upload_process"
  /\ preview # None /\ Val(preview).rows # << >>

\* ---------------------------------------------------- claims about the uploads
\* C18: in every reachable state the value of every stored StudentMark lies
\* between 0 and the current max_marks of its component.
C18_Bounded ==
  \A m \in marks :
    m.marks # None =>
      /\ 0 <= Val(m.marks)
      /\ Val(m.marks) <= components[<<m.course, m.assessment>>][m.question].max_marks

\* C19: there is at most one StudentMark row per roll number and component.
C19_OnePerPair ==
  \A m1, m2 \in marks :
    (/\ m1.course = m2.course /\ m1.assessment = m2.assessment
     /\ m1.question = m2.question /\ m1.roll_no = m2.roll_no) => m1 = m2

\* C20: a confirmation leaves, for the assessment, one row per student of the
\* confirmed upload and component of the assessment, holding the uploaded
\* value, and nothing else; the rows of other assessments are unchanged.
C20_Replaced ==
  [][(ret'.op = "confirm_marks" /\ preview # None) =>
      LET a == Val(Val(preview).assessment_id)
          rows == Val(preview).rows
          sheet == components[a]
          now == {m \in marks' : <<m.course, m.assessment>> = a}
      IN  /\ \A m \in now : \E n \in DOMAIN rows : m.roll_no = rows[n].roll
          /\ \A n \in DOMAIN rows : \A i \in DOMAIN sheet :
                /\ Cardinality({m \in now : m.roll_no = rows[n].roll /\ m.question = i}) = 1
                /\ sheet[i].component_number \in DOMAIN rows[n].marks
                /\ \E m \in now : /\ m.roll_no = rows[n].roll /\ m.question = i
                                   /\ m.marks = Some(rows[n].marks[sheet[i].component_number])
          /\ {m \in marks' : <<m.course, m.assessment>> # a}
               = {m \in marks : <<m.course, m.assessment>> # a}]_vars

\* C14: when the computation of one CO of a course fails, the COAttainment of
\* every other CO of the course is still computed and saved.
C14_Isolation ==
  ret.op = "recalc_raised" =>
    \A co \in COs :
      (CourseOf(co) = ret.course /\ co # ret.failed) =>
        coAtt[co] = Some(COAttainmentRow(co, cfg, marks))

\* ------------------------------------------------ claims about the application
\* C8: every stored COAttainment with a final_score has the level the
\* classifier gives final_score / 3 * 100 under the current GlobalConfig, and
\* every one without has LEVEL_0.
C8_LevelDerivable ==
  \A co \in COs :
    coAtt[co] # None =>
      IF Row(co).final_score = None
        THEN Row(co).level = "LEVEL_0"
        ELSE Row(co).level = _percent_to_level(Frac(Val(Row(co).final_score), 3), cfg)

\* The courses whose derived rows the last operation concerns.
Changed ==
  IF ret.op \in {"confirm_marks", "save_questions", "delete_assessment", "survey"}
    THEN {ret.course}
  ELSE IF ret.op \in {"settings_saved", "settings_reset"} /\ ret.diffs THEN Courses
  ELSE {}
\* Every stored COAttainment row of the course is what a recomputation writes.
COFresh(course) ==
  \A co \in COs :
    (CourseOf(co) = course /\ coAtt[co] # None) => Row(co) = COAttainmentRow(co, cfg, marks)
POFresh(course) ==
  \A po \in POs :
    (\E co \in COs : CourseOf(co) = course /\ mappings[<<co, po>>] > 0 /\ coAtt[co] # None)
      => poAtt[po] = calculate_po_attainment(course)[po]

\* C9: after an operation that changes marks, components, assessments, survey
\* aggregates or the configuration, the COAttainment rows of the course equal a
\* recomputation and so do the POAttainment rows of the POs mapped from its COs.
C9_NoStaleRows ==
  \A course \in Changed : COFresh(course) /\ POFresh(course)


\* C24: a completed compute_attainment_for_course(course) leaves exactly one
\* COAttainment row for every CO of the course, a CO without data included,
\* and returns a list with exactly one result for each of them.
C24_OneRowPerCO ==
  ret.op = "recalc" =>
    /\ \A co \in COs : CourseOf(co) = ret.course =>
         /\ ret.rows[co] = 1
         /\ coAtt[co] # None
         /\ Cardinality({i \in DOMAIN ret.results : ret.results[i] = co}) = 1
    /\ Len(ret.results) = Cardinality({co \in COs : CourseOf(co) = ret.course})

\* Course CB, whose CO3 had a row, is recomputed: CO3 has no data and one row.
C24_Witness ==
  /\ ret.op = "recalc" /\ ret.course = "CB"
  /\ ret.rows["CO3"] = 1 /\ ret.results = <<"CO3">>
  /\ coAtt["CO3"] # None /\ Val(coAtt["CO3"]).final_score = None

\* C25: compute_attainment_for_course(course) writes the COAttainment rows of
\* the COs of that course and nothing else: CourseOutcome, Assessment,
\* AssessmentComponent, StudentMark, survey aggregate and GlobalConfig rows and
\* the COAttainment rows of the COs of other courses stay as they were.
C25_WritesOwnRowsOnly ==
  [][ret'.op = "recalc" =>
       /\ UNCHANGED <<course_outcomes, assessments, n_assessments, components, marks, survey, cfg>>
       /\ \A co \in COs : CourseOf(co) # ret'.course => coAtt'[co] = coAtt[co]]_vars

\* Course CA with marks is recomputed while CO3 of course CB keeps its row.
C25_Witness ==
  /\ ret.op = "recalc" /\ ret.course = "CA"
  /\ marks # {} /\ coAtt["CO1"] # None /\ Val(coAtt["CO1"]).final_score # None
  /\ coAtt["CO3"] = Some(EarlierRow)


\* What C26 speaks of: the data rows that are not empty, whether the file has
\* a column for every template question and every non-empty data row answers
\* each of them with a Likert label, and the sum of the scores given to a
\* question.
AnswerTo(rows, r, q) ==
  LET at == {i \in DOMAIN rows[1] : strip(rows[1][i]) = q /\ i <= Len(rows[r])}
  IN  IF at = {} THEN "" ELSE strip(rows[r][CHOOSE i \in at : TRUE])
NonEmptyRows(rows) ==
  {r \in 2 .. Len(rows) : \E i \in DOMAIN rows[r] : rows[r][i] \notin {"", " "}}
LikertScore(label) ==
  CASE label = "Strongly Agree" -> 3 [] label = "Agree" -> 2 [] label = "Neutral" -> 1
    [] label = "Disagree" -> 0
AllValid(rows) ==
  /\ rows # << >>
  /\ \A q \in {"CO1", "CO2"} : \E i \in DOMAIN rows[1] : strip(rows[1][i]) = q
  /\ \A r \in NonEmptyRows(rows) : \A q \in {"CO1", "CO2"} : AnswerTo(rows, r, q) \in LikertLabels
RECURSIVE ScoreSum(_, _, _)
ScoreSum(rows, R, q) ==
  IF R = {} THEN 0
  ELSE LET r == CHOOSE x \in R : TRUE
       IN  LikertScore(AnswerTo(rows, r, q)) + ScoreSum(rows, R \ {r}, q)

C27_ImportOutcome ==
  pc.at = "ended" =>
    LET status == IF "status" \in DOMAIN pc.row THEN pc.row.status ELSE ""
        rolls == {pc.rows[i] : i \in DOMAIN pc.rows}
    IN  \/ /\ status = "IMPORTED"
           /\ pc.raised = ""
           /\ student_rows = rolls
        \/ /\ status = "FAILED"
           /\ "error_report" \in DOMAIN pc.row
           /\ marks = {}


\* C28: every PO that calculate_po_attainment writes gets indirect_score 0 and
\* final_score = direct * direct_weightage + 0 * indirect_weightage, stored to
\* two decimals, direct being the weighted mean computed for the PO.
C28_POFinal ==
  ret.op = "po" =>
    \A po \in POs :
      ret.direct[po] # None =>
        /\ poAtt[po] # None
        /\ Val(poAtt[po]).indirect_score = Some(0)
        /\ IsRounded(Val(Val(poAtt[po]).final_score),
                     Val(ret.direct[po]).num * cfg.direct_weightage
                       + 0 * cfg.indirect_weightage * Val(ret.direct[po]).den,
                     Val(ret.direct[po]).den * 100)

\* direct 2.25 under direct_weightage 0.8: final_score 1.8.
C28_Witness ==
  /\ ret.op = "po" /\ ret.course = "CA"
  /\ cfg.direct_weightage = 80
  /\ ret.direct["PO1"] # None
  /\ Val(ret.direct["PO1"]).num = 225 * Val(ret.direct["PO1"]).den
  /\ poAtt["PO1"] # None
  /\ Val(poAtt["PO1"]).final_score = Some(180) /\ Val(poAtt["PO1"]).indirect_score = Some(0)


\* C29: under one configuration the level classifier is applied on one scale
\* at CO and PO level: a COAttainment row written by
\* compute_attainment_for_course and a POAttainment row written by
\* calculate_po_attainment that hold the same final_score hold the same level.
C29_OneScale ==
  \A co \in COs : \A po \in POs :
    ( /\ coAtt[co] # None /\ poAtt[po] # None
      /\ Val(coAtt[co]).final_score = Val(poAtt[po]).final_score )
    => Val(poAtt[po]).attainment_level = _level_to_numeric(Val(coAtt[co]).level)


\* C30: a marks confirm consumes the preview of the session, and changes
\* StudentMark rows only if that preview was parsed for the same assessment;
\* a confirm without a preview (so also a second confirm without a new upload)
\* or with the preview of another assessment leaves the StudentMark and
\* COAttainment rows as they were and creates no MarksUpload row.
C30_ConfirmNeedsPreview ==
  [][ret'.op \in {"confirm_marks", "preview_expired"} =>
       LET held == /\ preview # None
                   /\ Val(preview).assessment_id = Some(<<ret'.course, ret'.type>>)
       IN  /\ preview' = None
           /\ (marks' # marks \/ ret'.uploads # 0) => held
           /\ ~held => (UNCHANGED <<marks, coAtt>> /\ ret'.uploads = 0)]_vars

\* After an upload for IA1 was confirmed, a confirm for IA2 finds no preview
\* of IA2: the marks of both assessments are still there.
C30_Witness ==
  /\ ret.op = "preview_expired" /\ ret.type = "IA2" /\ preview = None
  /\ \E m \in marks : m.assessment = "IA1"
  /\ \E m \in marks : m.assessment = "IA2"
  /\ coAtt["CO1"] # None


====
